---- MODULE Spec2Model ----
(***************************************************************************)
(* Model of the Gmail -> Slack cancellation monitor (src/app.py) and of    *)
(* the administrative reset script (src/clear_database.py).                *)
(*                                                                         *)
(* The ledger is the `processed` table of state.db: a set of string keys.  *)
(* The poller thread (start_polling / poll_gmail) is modelled step by      *)
(* step, one action per external call it makes, so that the reset script   *)
(* (another process) and the health endpoint (another thread) interleave   *)
(* with it at every point where they can in the program.                   *)
(***************************************************************************)
EXTENDS Naturals, Sequences, FiniteSets, TLC

\* ------------------------------------------------------------------ bounds

\* Largest number of messages a search of the modelled mailbox returns.
MaxList == 2
\* The delivery counters kept for the properties saturate at this value.
MaxCount == 2
\* Longest body, in tokens, of the bodies the key extraction is applied to
\* exhaustively.
MaxBody == 4
\* Largest number of parts of a composite part of the model's body trees.
MaxParts == 2
\* Longest text, in characters, the decoder is applied to exhaustively.
MaxText == 3

\* maxResults=10 of the messages.list call.
maxResults == 10

\* ---------------------------------------------------------- small helpers

Min(a, b) == IF a < b THEN a ELSE b

SetMin(S) == CHOOSE x \in S : \A y \in S : x <= y

Range(s) == {s[k] : k \in 1..Len(s)}

\* ------------------------------------------------------ the mailbox's data

\* Raw message ids of the mailbox provider.
Ids == {"A", "B"}

\* A body is a sequence of tokens; the tokens are the pieces of text the
\* record-id patterns tell apart: the word "Record", the text "ID:", "#",
\* a space, a line break, single digits, and any other text ("x", "y").
WsTokens == {"SP", "NL"}
DigitTokens == {"2", "4", "7", "8", "9"}

IsWs(t) == t \in WsTokens
IsDigit(t) == t \in DigitTokens

\* Normalized messages as get_message_details returns them: subject, sender,
\* formatted date, decoded body, thread id.
MsgRecord7 ==
  [subject |-> "Cancellation", sender |-> "crm", date |-> "D1",
   body |-> <<"Record", "SP", "ID:", "SP", "7">>, thread_id |-> "t1"]
MsgId7 ==
  [subject |-> "Cancel", sender |-> "crm", date |-> "D1",
   body |-> <<"x", "ID:", "7", "SP", "#", "9">>, thread_id |-> "t2"]
MsgPlain ==
  [subject |-> "Cancellation", sender |-> "crm", date |-> "D1",
   body |-> <<"x">>, thread_id |-> "t3"]
MsgPlainOther ==
  [subject |-> "Cancellation", sender |-> "bot", date |-> "D1",
   body |-> <<"y", "SP", "x">>, thread_id |-> "t4"]

Contents == {MsgRecord7, MsgId7, MsgPlain, MsgPlainOther}

\* The mailboxes of the model: two messages with the same record id, two
\* with no record id and the same subject and date, and two with different
\* content keys.
Mailboxes ==
  { [m \in Ids |-> IF m = "A" THEN MsgRecord7 ELSE MsgId7],
    [m \in Ids |-> IF m = "A" THEN MsgPlain ELSE MsgPlainOther],
    [m \in Ids |-> IF m = "A" THEN MsgRecord7 ELSE MsgPlain] }

\* A message as get_message_details returns it, with body b.
MsgOfBody(b) ==
  [subject |-> "Cancellation", sender |-> "crm", date |-> "D1",
   body |-> b, thread_id |-> "t0"]

\* The tokens bodies are built from, for the exhaustive runs of the key
\* extraction.
BodyTokens == {"Record", "SP", "NL", "ID:", "#", "4", "9", "x"}

\* "Record ID: 42 x #99" and the same two pieces in the other order.
BodyRecord42Hash99 ==
  <<"Record", "SP", "ID:", "SP", "4", "2", "SP", "x", "SP", "#", "9", "9">>
BodyHash99Record42 ==
  <<"#", "9", "9", "SP", "x", "SP", "Record", "SP", "ID:", "SP", "4", "2">>

\* The bodies of the extraction runs: every body of up to n tokens, and the
\* two longer ones above.
Bodies(n) ==
  UNION { [1..k -> BodyTokens] : k \in 0..n }
    \cup {BodyRecord42Hash99, BodyHash99Record42}

\* A mailbox with one message more than a search returns: the ids of the
\* messages that match the query, newest first.
Inbox ==
  <<"m01", "m02", "m03", "m04", "m05", "m06", "m07", "m08", "m09", "m10",
    "m11">>

\* The message with raw id m of that mailbox; the subjects differ, so the
\* content keys do.
MsgOfInbox(m) ==
  [subject |-> m, sender |-> "crm", date |-> "D1", body |-> <<"x">>,
   thread_id |-> m]

\* messages.list(q=..., maxResults=10) with no pageToken: the first page,
\* the newest maxResults ids that match.
FirstPage(inbox) == SubSeq(inbox, 1, Min(maxResults, Len(inbox)))

\* ------------------------------------------------- record-id extraction

\* (\d+) from position k: the longest run of digits, "" when there is none.
RECURSIVE DigitRun(_, _)
DigitRun(b, k) ==
  IF k > Len(b) \/ ~IsDigit(b[k]) THEN "" ELSE b[k] \o DigitRun(b, k + 1)

\* \s* from position k: the first position that holds no whitespace.
RECURSIVE SkipWs(_, _)
SkipWs(b, k) ==
  IF k > Len(b) \/ ~IsWs(b[k]) THEN k ELSE SkipWs(b, k + 1)

Tok(b, k) == IF k \in 1..Len(b) THEN b[k] ELSE "EOF"

\* r'Record ID:\s*(\d+)' matched at position k: group 1, "" for no match.
PatRecordId(b, k) ==
  IF Tok(b, k) = "Record" /\ Tok(b, k + 1) = "SP" /\ Tok(b, k + 2) = "ID:"
  THEN DigitRun(b, SkipWs(b, k + 3)) ELSE ""

\* r'Record\s+ID:\s*(\d+)' matched at position k.
PatRecordWsId(b, k) ==
  IF Tok(b, k) = "Record" /\ IsWs(Tok(b, k + 1))
     /\ Tok(b, SkipWs(b, k + 1)) = "ID:"
  THEN DigitRun(b, SkipWs(b, SkipWs(b, k + 1) + 1)) ELSE ""

\* r'ID:\s*(\d+)' matched at position k.
PatId(b, k) ==
  IF Tok(b, k) = "ID:" THEN DigitRun(b, SkipWs(b, k + 1)) ELSE ""

\* r'#(\d+)' matched at position k.
PatHash(b, k) ==
  IF Tok(b, k) = "#" THEN DigitRun(b, k + 1) ELSE ""

\* The ordered list `patterns` of extract_record_id, each named by what it
\* looks for: r'Record ID:\s*(\d+)', r'Record\s+ID:\s*(\d+)',
\* r'ID:\s*(\d+)', r'#(\d+)'.
patterns == <<"Record ID:", "Record\\s+ID:", "ID:", "#">>

\* The match of one pattern of the list at position k of the body.
MatchAt(pattern, b, k) ==
  CASE pattern = patterns[1] -> PatRecordId(b, k)
    [] pattern = patterns[2] -> PatRecordWsId(b, k)
    [] pattern = patterns[3] -> PatId(b, k)
    [] pattern = patterns[4] -> PatHash(b, k)

\* re.search(pattern, body): group 1 of the leftmost match, "" for None.
re_search(pattern, b) ==
  LET hits == {k \in 1..Len(b) : MatchAt(pattern, b, k) # ""}
  IN IF hits = {} THEN "" ELSE MatchAt(pattern, b, SetMin(hits))

\* Mutant of extract_record_id: the match that starts leftmost in the body
\* wins, whichever pattern it is of.
extract_record_id_leftmost(message_data) ==
  LET body == message_data.body
      at == {k \in 1..Len(body) :
               \E i \in 1..Len(patterns) : MatchAt(patterns[i], body, k) # ""}
  IN IF at = {} THEN ""
     ELSE LET k == SetMin(at)
              i == SetMin({j \in 1..Len(patterns) :
                             MatchAt(patterns[j], body, k) # ""})
          IN MatchAt(patterns[i], body, k)

\* extract_record_id: group 1 of the first pattern of the ordered list that
\* matches anywhere in the body; "" stands for None.
extract_record_id(message_data) ==
  LET body == message_data.body
      found == {i \in 1..Len(patterns) : re_search(patterns[i], body) # ""}
  IN IF found = {} THEN "" ELSE re_search(patterns[SetMin(found)], body)

\* hashlib.md5(content.encode()).hexdigest(): a function of the content
\* string, taken to be injective and never of the form record_<digits>.
md5hex(content) == "md5:" \o content

\* Mutant of create_content_hash: the record id is not used, every key is
\* the hash of subject and date.
create_content_hash_no_record(message_data) ==
  md5hex(message_data.subject \o "_" \o message_data.date)

\* Mutant of create_content_hash: the fallback hash also covers the sender.
create_content_hash_with_sender(message_data) ==
  IF extract_record_id(message_data) # ""
  THEN "record_" \o extract_record_id(message_data)
  ELSE md5hex(message_data.subject \o "_" \o message_data.date
              \o "_" \o message_data.sender)

\* create_content_hash: record_<id> when a record id is found, else the
\* hash of f"{subject}_{date}".
create_content_hash(message_data) ==
  IF extract_record_id(message_data) # ""
  THEN "record_" \o extract_record_id(message_data)
  ELSE md5hex(message_data.subject \o "_" \o message_data.date)

\* ------------------------------------------------------------ the ledger

\* SELECT id FROM processed WHERE id = ?  (fetchone() is not None)
SelectId(table, key) == key \in table

\* Mutant of InsertOrIgnore: the row replaces the table's rows.
InsertReplacing(table, key) == {key}

\* Mutant of InsertOrIgnore: the INSERT is never committed.
InsertNothing(table, key) == table

\* INSERT OR IGNORE INTO processed (id) VALUES (?)
InsertOrIgnore(table, key) == table \cup {key}

\* Mutant of InsertConflict: a plain INSERT, which raises a constraint error
\* for a key that is in the table already (id is the PRIMARY KEY).
InsertConflictPlain(table, key) == key \in table

\* Whether the INSERT raises a constraint error for this key: never, under
\* OR IGNORE.
InsertConflict(table, key) == FALSE

\* The write of one key goes through: the storage access works (ok) and the
\* INSERT raises no constraint error.
WriteOk(table, key, ok) == ok /\ ~InsertConflict(table, key)

\* Mutant of DeleteAll: the DELETE removes no row.
DeleteNone(table) == table

\* DELETE FROM processed
DeleteAll(table) == {}

\* Mutant of is_message_processed: a storage error counts as "processed".
is_message_processed_fail_closed(table, message_id, ok) ==
  IF ok THEN SelectId(table, message_id) ELSE TRUE

\* Mutant of is_message_processed: the raw id is never found.
is_message_processed_never(table, message_id, ok) == FALSE

\* is_message_processed: the SELECT's answer; False when the storage
\* access raises (ok = FALSE).
is_message_processed(table, message_id, ok) ==
  IF ok THEN SelectId(table, message_id) ELSE FALSE

\* is_duplicate_by_content: the SELECT's answer for the content key; False
\* when the storage access raises.
is_duplicate_by_content(table, message_data, ok) ==
  IF ok THEN SelectId(table, create_content_hash(message_data)) ELSE FALSE

\* Mutant of mark_message_processed: the row is written although the call
\* logs an error.
mark_message_processed_partial(table, message_id, ok) ==
  InsertOrIgnore(table, message_id)

\* mark_message_processed: the table after the call; unchanged when the
\* storage access raises (the exception is logged and swallowed).
mark_message_processed(table, message_id, ok) ==
  IF WriteOk(table, message_id, ok)
  THEN InsertOrIgnore(table, message_id) ELSE table

\* Mutant of mark_content_processed: the content key is never written.
mark_content_dropped(table, message_data, ok) == table

\* mark_content_processed: as above, for the content key.
mark_content_processed(table, message_data, ok) ==
  IF WriteOk(table, create_content_hash(message_data), ok)
  THEN InsertOrIgnore(table, create_content_hash(message_data)) ELSE table

\* -------------------------------------------------------------- the sink

\* The value of an environment variable that is not set.
Unset == "<unset>"

\* What requests.post can do: return a response with a status code, or
\* raise (raised = TRUE).
SinkResponses ==
  { [raised |-> FALSE, status_code |-> 200],
    [raised |-> FALSE, status_code |-> 204],
    [raised |-> FALSE, status_code |-> 500],
    [raised |-> TRUE, status_code |-> 0] }

\* Mutant of requests_post: a request goes out whatever the URL is.
requests_post_any_url(url) == SinkResponses

\* requests.post(url, json=payload): with no URL (None) it raises
\* MissingSchema before anything is sent; with one, the sink answers or the
\* call raises.
requests_post(url) ==
  IF url = Unset THEN {r \in SinkResponses : r.raised} ELSE SinkResponses

\* Mutant of post_to_slack: every response that is not an exception counts
\* as success, whatever its status code.
post_to_slack_any_status(response) == ~response.raised

\* Mutant of post_to_slack: every 2xx status counts as success.
post_to_slack_2xx(response) ==
  ~response.raised /\ response.status_code \in 200..299

\* post_to_slack's result for one response of the sink.
post_to_slack(response) ==
  IF response.raised THEN FALSE ELSE response.status_code = 200

\* ---------------------------------------------------------- body decoding

\* In the runs of the decoder a text is a sequence of Unicode code points
\* below 2048, bytes are numbers 0..255 and base64url data is a sequence of
\* alphabet indices 0..63, with 64 for the padding character '='.

\* str.encode('utf-8'): one byte for a code point below 128, two for one
\* below 2048.
RECURSIVE utf8_encode(_)
utf8_encode(text) ==
  IF text = <<>> THEN <<>>
  ELSE (IF Head(text) < 128 THEN <<Head(text)>>
        ELSE <<192 + (Head(text) \div 64), 128 + (Head(text) % 64)>>)
       \o utf8_encode(Tail(text))

\* bytes.decode('utf-8'), strict: ok is FALSE where Python raises
\* UnicodeDecodeError (a byte that starts no sequence, a lead byte with no
\* continuation byte after it). Sequences of three and four bytes are not
\* modelled: their lead bytes count as invalid.
RECURSIVE utf8_decode(_)
utf8_decode(bytes) ==
  IF bytes = <<>> THEN [ok |-> TRUE, text |-> <<>>]
  ELSE IF bytes[1] < 128
  THEN LET rest == utf8_decode(Tail(bytes))
       IN  [ok |-> rest.ok, text |-> <<bytes[1]>> \o rest.text]
  ELSE IF /\ bytes[1] \in 194..223
          /\ Len(bytes) >= 2
          /\ bytes[2] \in 128..191
  THEN LET rest == utf8_decode(SubSeq(bytes, 3, Len(bytes)))
       IN  [ok |-> rest.ok,
            text |-> <<(bytes[1] - 192) * 64 + (bytes[2] - 128)>> \o rest.text]
  ELSE [ok |-> FALSE, text |-> <<>>]

\* base64.urlsafe_b64encode: four characters for three bytes, padded.
RECURSIVE b64encode(_)
b64encode(bytes) ==
  IF bytes = <<>> THEN <<>>
  ELSE IF Len(bytes) = 1
  THEN <<bytes[1] \div 4, (bytes[1] % 4) * 16, 64, 64>>
  ELSE IF Len(bytes) = 2
  THEN <<bytes[1] \div 4, (bytes[1] % 4) * 16 + (bytes[2] \div 16),
         (bytes[2] % 16) * 4, 64>>
  ELSE <<bytes[1] \div 4, (bytes[1] % 4) * 16 + (bytes[2] \div 16),
         (bytes[2] % 16) * 4 + (bytes[3] \div 64), bytes[3] % 64>>
       \o b64encode(SubSeq(bytes, 4, Len(bytes)))

\* The bytes of a group of two or three characters that padding completes.
b64_partial(quad) ==
  IF Len(quad) = 2 THEN <<quad[1] * 4 + (quad[2] \div 16)>>
  ELSE <<quad[1] * 4 + (quad[2] \div 16),
         (quad[2] % 16) * 16 + (quad[3] \div 4)>>

\* The scan of base64.urlsafe_b64decode (binascii.a2b_base64, not strict)
\* from position k: `quad` holds the characters of the group at hand,
\* `pads` the padding characters seen after it, `out` the bytes so far.
\* Padding that completes a group ends the scan; input that ends inside a
\* group is an error (binascii.Error: ok is FALSE).
RECURSIVE b64_scan(_, _, _, _, _)
b64_scan(data, k, quad, pads, out) ==
  IF k > Len(data)
  THEN [ok |-> quad = <<>>, bytes |-> out]
  ELSE IF data[k] = 64
  THEN IF Len(quad) >= 2 /\ Len(quad) + pads + 1 >= 4
       THEN [ok |-> TRUE, bytes |-> out \o b64_partial(quad)]
       ELSE b64_scan(data, k + 1, quad,
                     IF Len(quad) >= 2 THEN pads + 1 ELSE pads, out)
  ELSE IF Len(quad) = 3
  THEN b64_scan(data, k + 1, <<>>, 0,
                out \o <<quad[1] * 4 + (quad[2] \div 16),
                         (quad[2] % 16) * 16 + (quad[3] \div 4),
                         (quad[3] % 4) * 64 + data[k]>>)
  ELSE b64_scan(data, k + 1, Append(quad, data[k]), 0, out)

urlsafe_b64decode(data) == b64_scan(data, 1, <<>>, 0, <<>>)

\* base64.urlsafe_b64decode(data).decode('utf-8'): the text, or ok = FALSE
\* where one of the two raises.
decode_data(data) ==
  LET raw == urlsafe_b64decode(data)
  IN  IF raw.ok THEN utf8_decode(raw.bytes) ELSE [ok |-> FALSE, text |-> <<>>]

\* The first position from k on that holds '>' (62), 0 when there is none.
RECURSIVE FirstGt(_, _)
FirstGt(html, k) ==
  IF k > Len(html) THEN 0
  ELSE IF html[k] = 62 THEN k ELSE FirstGt(html, k + 1)

\* re.sub(r'<[^>]+>', '', html) from position k: a '<' (60) followed by at
\* least one character that is not '>' and then by '>' is removed with
\* everything up to that '>'; any other character is kept.
RECURSIVE strip_tags_from(_, _)
strip_tags_from(html, k) ==
  IF k > Len(html) THEN <<>>
  ELSE IF html[k] = 60 /\ FirstGt(html, k + 1) > k + 1
  THEN strip_tags_from(html, FirstGt(html, k + 1) + 1)
  ELSE <<html[k]>> \o strip_tags_from(html, k + 1)

\* Mutant of strip_tags: the HTML is returned as it is.
strip_tags_kept(html) == html

strip_tags(html) == strip_tags_from(html, 1)

\* part.get('body', {}).get('data', '')
data_of(part) ==
  IF "body" \in DOMAIN part /\ "data" \in DOMAIN part.body
  THEN part.body.data ELSE <<>>

\* The try block of a text part: the decoded text, with the tags removed
\* when the part is HTML; ok is FALSE where the block raises.
text_of(part) ==
  LET decoded == decode_data(data_of(part))
  IN  IF part.mimeType = "text/html" /\ decoded.ok
      THEN [ok |-> TRUE, text |-> strip_tags(decoded.text)]
      ELSE decoded

RECURSIVE extract_from_part(_)

\* Mutant of first_result: the result of the first part is returned, empty
\* or not.
first_result_no_skip(parts, k) ==
  IF k > Len(parts) THEN <<>> ELSE extract_from_part(parts[k])

\* for subpart in part['parts']: the first result that is not empty, from
\* part k on; "" when there is none.
RECURSIVE first_result(_, _)
first_result(parts, k) ==
  IF k > Len(parts) THEN <<>>
  ELSE IF extract_from_part(parts[k]) # <<>>
  THEN extract_from_part(parts[k])
  ELSE first_result(parts, k + 1)

\* extract_from_part of extract_message_body: the text of a text part ("" when
\* it has no data or decoding it raises), the first text found in the parts
\* of a composite part, "" for any other part.
extract_from_part(part) ==
  IF part.mimeType \in {"text/plain", "text/html"}
  THEN IF data_of(part) # <<>> /\ text_of(part).ok
       THEN text_of(part).text ELSE <<>>
  ELSE IF "parts" \in DOMAIN part THEN first_result(part.parts, 1)
  ELSE <<>>

\* payload.get('snippet', '')
snippet_of(payload) ==
  IF "snippet" \in DOMAIN payload THEN payload.snippet ELSE <<>>

\* extract_message_body: a simple text payload that decodes is returned as
\* it is; for a composite payload the first text found in its parts; in
\* every other case `body` is still "" and the payload's snippet is
\* returned.
extract_message_body(payload) ==
  IF payload.mimeType \in {"text/plain", "text/html"}
  THEN IF data_of(payload) # <<>> /\ text_of(payload).ok
       THEN text_of(payload).text
       ELSE snippet_of(payload)
  ELSE IF "parts" \in DOMAIN payload /\ first_result(payload.parts, 1) # <<>>
  THEN first_result(payload.parts, 1)
  ELSE snippet_of(payload)

\* next((h['value'] for h in headers if h['name'] == name), default)
RECURSIVE header_value(_, _, _)
header_value(headers, name, default) ==
  IF headers = <<>> THEN default
  ELSE IF Head(headers).name = name THEN Head(headers).value
  ELSE header_value(Tail(headers), name, default)

\* parsedate_to_datetime, astimezone and strftime: the one date of the
\* model's messages in the monitor's timezone; a string that is no date is
\* kept as it is.
format_date(date_str) ==
  IF date_str = "Tue, 16 Sep 2025 12:00:00 +0200"
  THEN "2025-09-16 10:00:00 UTC" ELSE date_str

\* get_message_details once messages.get has returned `message`.
get_message_details(message) ==
  [subject |-> header_value(message.payload.headers, "Subject", "No Subject"),
   sender |-> header_value(message.payload.headers, "From", "Unknown Sender"),
   date |-> format_date(header_value(message.payload.headers, "Date", "")),
   body |-> extract_message_body(message.payload),
   thread_id |-> message.threadId,
   snippet |-> message.snippet]

\* ------------------------------------------------------- the sink's payload

\* Texts of the payload are sequences of pieces: the literal parts of the
\* f-strings and the values put into them; "NL" is the line break, "TICK"
\* the backtick, "FENCE" the code fence of three backticks and "[e-mail]"
\* the character U+1F4E7.
gmail_link(message_data) ==
  <<"https://mail.google.com/mail/u/0/#inbox/", message_data.thread_id>>

\* The block appended when message_data['body'] is not empty: the whole
\* body between the two code fences.
preview_block(message_data) ==
  [type |-> "section",
   text |-> [type |-> "mrkdwn",
             text |-> <<"*Preview:*", "NL", "FENCE">> \o message_data.body
                        \o <<"FENCE">>]]

\* The last block: one button that opens the thread in Gmail.
actions_block(message_data) ==
  [type |-> "actions",
   elements |-> <<[type |-> "button",
                   text |-> [type |-> "plain_text", text |-> "Open in Gmail"],
                   url |-> gmail_link(message_data),
                   action_id |-> "open_gmail"]>>]

\* Mutant of slack_payload: the preview block is appended whatever the body.
slack_payload_always_preview(message_data, cfg) ==
  [text |-> <<"[e-mail] New Email: ", message_data.subject>>,
   channel |-> cfg.slack_channel,
   username |-> cfg.slack_username,
   blocks |->
     <<[type |-> "header",
        text |-> [type |-> "plain_text",
                  text |-> <<"[e-mail] ", message_data.subject>>]],
       [type |-> "section",
        fields |-> <<[type |-> "mrkdwn",
                      text |-> <<"*From:*", "NL", message_data.sender>>],
                     [type |-> "mrkdwn",
                      text |-> <<"*Date:*", "NL", message_data.date>>]>>],
       [type |-> "section",
        text |-> [type |-> "mrkdwn",
                  text |-> <<"*Query:*", "SP", "TICK", cfg.gmail_query, "TICK">>]],
       preview_block(message_data),
       actions_block(message_data)>>]

\* The JSON object post_to_slack hands to requests.post: text, channel,
\* username and the blocks, built from the normalized message and from the
\* monitor's configuration.
slack_payload(message_data, cfg) ==
  [text |-> <<"[e-mail] New Email: ", message_data.subject>>,
   channel |-> cfg.slack_channel,
   username |-> cfg.slack_username,
   blocks |->
     <<[type |-> "header",
        text |-> [type |-> "plain_text",
                  text |-> <<"[e-mail] ", message_data.subject>>]],
       [type |-> "section",
        fields |-> <<[type |-> "mrkdwn",
                      text |-> <<"*From:*", "NL", message_data.sender>>],
                     [type |-> "mrkdwn",
                      text |-> <<"*Date:*", "NL", message_data.date>>]>>],
       [type |-> "section",
        text |-> [type |-> "mrkdwn",
                  text |-> <<"*Query:*", "SP", "TICK", cfg.gmail_query, "TICK">>]]>>
     \o (IF message_data.body # <<>> THEN <<preview_block(message_data)>>
         ELSE <<>>)
     \o <<actions_block(message_data)>>]

\* ------------------------------------------------- the test's simulator

\* The query create_slack_payload takes when it is called with none.
default_gmail_query ==
  "from:noreply@forthcrm.com (subject:\"Cancellation\" OR subject:\"Cancel\" OR subject:\"cancelled\" OR subject:\"cancelled\") newer_than:7d"

\* Mutant of create_slack_payload: the query shown is always the default.
create_slack_payload_default_query(message_data, gmail_query) ==
  [channel |-> "forth-alerts",
   username |-> "Gmail Monitor",
   text |-> <<"[e-mail] New Email: ", message_data.subject>>,
   blocks |->
     <<[type |-> "header",
        text |-> [type |-> "plain_text",
                  text |-> <<"[e-mail] ", message_data.subject>>]],
       [type |-> "section",
        fields |-> <<[type |-> "mrkdwn",
                      text |-> <<"*From:*", "NL", message_data.sender>>],
                     [type |-> "mrkdwn",
                      text |-> <<"*Date:*", "NL", message_data.date>>]>>],
       [type |-> "section",
        text |-> [type |-> "mrkdwn",
                  text |-> <<"*Query:*", "SP", "TICK", default_gmail_query,
                             "TICK">>]]>>
     \o (IF message_data.body # <<>>
         THEN <<[type |-> "section",
                 text |-> [type |-> "mrkdwn",
                           text |-> <<"*Preview:*", "NL", "FENCE">>
                                      \o message_data.body \o <<"FENCE">>]]>>
         ELSE <<>>)
     \o <<[type |-> "actions",
           elements |->
             <<[type |-> "button",
                text |-> [type |-> "plain_text", text |-> "Open in Gmail"],
                url |-> <<"https://mail.google.com/mail/u/0/#inbox/",
                          message_data.thread_id>>,
                action_id |-> "open_gmail"]>>]>>]

\* create_slack_payload of test_forth_cancellation.py: the payload the
\* simulator builds and displays, with a channel name of its own.
create_slack_payload(message_data, gmail_query) ==
  [channel |-> "forth-alerts",
   username |-> "Gmail Monitor",
   text |-> <<"[e-mail] New Email: ", message_data.subject>>,
   blocks |->
     <<[type |-> "header",
        text |-> [type |-> "plain_text",
                  text |-> <<"[e-mail] ", message_data.subject>>]],
       [type |-> "section",
        fields |-> <<[type |-> "mrkdwn",
                      text |-> <<"*From:*", "NL", message_data.sender>>],
                     [type |-> "mrkdwn",
                      text |-> <<"*Date:*", "NL", message_data.date>>]>>],
       [type |-> "section",
        text |-> [type |-> "mrkdwn",
                  text |-> <<"*Query:*", "SP", "TICK", gmail_query,
                             "TICK">>]]>>
     \o (IF message_data.body # <<>>
         THEN <<[type |-> "section",
                 text |-> [type |-> "mrkdwn",
                           text |-> <<"*Preview:*", "NL", "FENCE">>
                                      \o message_data.body \o <<"FENCE">>]]>>
         ELSE <<>>)
     \o <<[type |-> "actions",
           elements |->
             <<[type |-> "button",
                text |-> [type |-> "plain_text", text |-> "Open in Gmail"],
                url |-> <<"https://mail.google.com/mail/u/0/#inbox/",
                          message_data.thread_id>>,
                action_id |-> "open_gmail"]>>]>>]

\* ------------------------------------------------------ the health report

\* The JSON object of /health (its timestamp, the time of the request, is
\* left out).
health_response(cfg, mode) ==
  <<[status |-> "healthy", timezone |-> cfg.timezone, mode |-> mode,
     gmail_query |-> cfg.gmail_query, poll_interval |-> cfg.poll_interval]>>

\* ------------------------------------------------------------- the state

\* The monitor's configuration (GmailSlackMonitor.__init__), never written
\* after construction.
monitor ==
  [gmail_query |->
     "from:noreply@forthcrm.com (subject:\"Cancellation\" OR subject:\"Cancel\" OR subject:\"cancelled\" OR subject:\"cancelled\") newer_than:7d",
   slack_webhook_url |-> "https://hooks.slack.com/services/T0/B0/X0",
   slack_channel |-> "#forth-alerts", slack_username |-> "Gmail Monitor",
   poll_interval |-> 60, timezone |-> "UTC"]

\* The configuration when SLACK_WEBHOOK_URL is not set:
\* os.getenv('SLACK_WEBHOOK_URL') is None.
monitor_no_webhook == [monitor EXCEPT !.slack_webhook_url = Unset]

\* What messages.list can return: up to maxResults ids of the mailbox, each
\* message at most once.
SearchLists ==
  { l \in UNION { [1..n -> Ids] : n \in 0..Min(maxResults, MaxList) } :
      \A j, k \in 1..Len(l) : l[j] = l[k] => j = k }

\* The result lists of a provider that may return an id more than once.
RepeatingLists ==
  UNION { [1..n -> Ids] : n \in 0..Min(maxResults, MaxList) }

Outcomes == {"skip_raw", "fetch_fail", "skip_content", "post_ok", "post_fail"}

\* What the history variables record in one run; the program's own state
\* and steps are the same under each.
Observers ==
  {"delivery", "retry", "reset", "scenario", "extract", "cancel", "cap",
   "decode", "payload", "startup", "live", "skip", "paired", "term", "twice"}

VARIABLES
  \* program state
  ledger,        \* the ids of table `processed` in state.db
  mailbox,       \* the provider's messages: id -> normalized message
  pc,            \* where the polling thread is
  messages,      \* poll_gmail's `messages`: the ids the search returned
  idx,           \* position of the for loop in `messages`
  message_data,  \* poll_gmail's `message_data`: <<>> before the fetch
  healthResp,    \* the last response of /health, <<>> before the first
  config,        \* the fields of the monitor object that hold configuration
  boot,          \* what the process finds when it starts: the credentials in
                 \* its environment, the state of state.db, its MODE
  \* history, read by the properties only
  observe,       \* which of the history variables below this run records
  outcomes,      \* how each entry of this cycle evaluated so far ended
  posts,         \* HTTP POSTs sent to the sink in this cycle
  fetches,       \* messages.get calls made in this cycle
  accepted,      \* id -> deliveries of it the sink answered with 200
  everReset,     \* the reset script has cleared the table
  storageFault,  \* a read or a write of the table has raised
  readRaised,    \* the contains checks ("raw", "content") of the current
                 \* entry that raised
  lastRead,      \* "ok" / "raised": the contains check the poller's last
                 \* step made; "none" when that step made none
  lastWrite,     \* how the last write of the table ended ("added", "kept",
                 \* "raised", "conflict"); "none" when nothing was written
                 \* yet or the table was cleared since
  dirty,         \* a failure, a fault or a reset happened since this cycle began
  prev,          \* the previous cycle, when it was clean: its list, its outcomes
  failedIds,     \* ids whose delivery failed, not returned by a search since
  retryNow,      \* ids of this cycle's list whose delivery failed before it
  owed,          \* ids delivered before the last reset, not returned since
  due,           \* ids of this cycle's list delivered before the last reset
  sinceReset,    \* ids delivered with 200 since the last reset
  resetPc,       \* where the polling thread was at the last reset
  sent,          \* the last payload posted to the sink and the message it
                 \* was built from, <<>> before the first
  skippedEarlier, \* ids skipped by content key in a cycle before this one
  settled,       \* ids found delivered with 200 and in the ledger when a
                 \* cycle began
  simulated      \* the last payload the test simulator built and the
                 \* message it was built from, <<>> before the first

histVars == <<observe, outcomes, posts, fetches, accepted, everReset,
              storageFault, readRaised, lastRead, lastWrite, dirty, prev, failedIds, retryNow,
              owed, due, sinceReset, resetPc, sent, skippedEarlier, settled,
                 simulated>>
vars == <<ledger, mailbox, pc, messages, idx, message_data, healthResp,
          config, boot,
          observe, outcomes, posts, fetches, accepted, everReset,
          storageFault, readRaised, lastRead, lastWrite, dirty, prev, failedIds,
          retryNow, owed,
          due, sinceReset, resetPc, sent, skippedEarlier, settled,
                 simulated>>

\* What a process finds that starts and runs: credentials the provider
\* accepts, a state.db that can be opened, and MODE=combined.
Started == [credentials |-> "valid", database |-> "ok", mode |-> "combined"]

\* os.getenv(name, default): the value of the variable, the default when
\* the variable is not set.
getenv(value, default) == IF value = Unset THEN default ELSE value

\* str.lower() on the values MODE takes in the model.
lower(value) ==
  CASE value = "Server" -> "server"
    [] value = "WORKER" -> "worker"
    [] value = "Combined" -> "combined"
    [] OTHER -> value

\* The mode /health reports: os.getenv('MODE', 'unknown').
health_mode(b) == getenv(b.mode, "unknown")

\* The mode main() runs in: os.getenv('MODE', 'combined').lower().
main_mode(b) == lower(getenv(b.mode, "combined"))

\* Mutant of Serving: the server is started in worker mode too.
ServingWorker ==
  /\ pc \notin {"import", "dead"}
  /\ main_mode(boot) \in {"server", "worker", "combined"}

\* serve(app, ...) runs: the process got past its start in a mode that
\* serves.
Serving ==
  pc \notin {"import", "dead"} /\ main_mode(boot) \in {"server", "combined"}

\* monitor.start_polling runs: the mode is one that polls.
Polling == main_mode(boot) \in {"worker", "combined"}

\* The runs of the "cap" observer are those of a provider, a sink and a
\* storage that work, over the mailbox `Inbox`, which does not change: every
\* access goes through, every delivery is answered with 200, and the same
\* request is answered with the same first page.
Calm == observe = "cap"

StorageOutcomes == IF Calm THEN {TRUE} ELSE BOOLEAN

\* The runs of the "paired" observer are those in which every write of the
\* table goes through; its reads may raise.
WriteOutcomes ==
  IF Calm \/ observe = "paired" THEN {TRUE} ELSE BOOLEAN

FetchOutcomes == IF Calm THEN {TRUE} ELSE BOOLEAN

\* The runs of the "live" observer are those in which every search returns
\* message "A".
Live == observe = "live"

\* messages.list raises whenever the provider rejects the credentials.
SearchRaises ==
  IF Calm \/ Live THEN {FALSE}
  ELSE IF boot.credentials = "rejected" THEN {TRUE} ELSE BOOLEAN

SearchResults ==
  IF Calm THEN {FirstPage(Inbox)}
  ELSE IF Live THEN {l \in SearchLists : "A" \in Range(l)}
  ELSE IF observe = "twice" THEN RepeatingLists
  ELSE SearchLists

SinkAnswers ==
  IF Calm THEN {r \in SinkResponses : ~r.raised /\ r.status_code = 200}
  ELSE requests_post(config.slack_webhook_url)

\* `prev` when the previous cycle was not clean, or there was none.
NoCycle == [messages |-> <<>>, outcomes |-> <<>>, clean |-> FALSE]

\* The state after GmailSlackMonitor() is constructed on a fresh state.db:
\* the table exists and is empty, the polling loop has not started a cycle.
InitProgram ==
  /\ ledger = {}
  /\ mailbox \in Mailboxes
  /\ pc = "sleep"
  /\ messages = <<>>
  /\ idx = 0
  /\ message_data = <<>>
  /\ healthResp = <<>>
  /\ config = monitor
  /\ boot = Started

InitHistory ==
  /\ outcomes = <<>>
  /\ posts = 0
  /\ fetches = 0
  /\ accepted = [m \in Ids |-> 0]
  /\ everReset = FALSE
  /\ storageFault = FALSE
  /\ readRaised = {}
  /\ lastRead = "none"
  /\ lastWrite = "none"
  /\ dirty = FALSE
  /\ prev = NoCycle
  /\ failedIds = {}
  /\ retryNow = {}
  /\ owed = {}
  /\ due = {}
  /\ sinceReset = {}
  /\ resetPc = "none"
  /\ sent = <<>>
  /\ skippedEarlier = {}
  /\ settled = {}
  /\ simulated = <<>>

Init == InitProgram /\ InitHistory /\ observe = "delivery"

\* A history variable's next value: recorded under the observers that read
\* it, left alone under the others.
Rec(observers, new, old) == IF observe \in observers THEN new ELSE old

\* message_id = message['id'] of the entry the loop is at.
message_id == messages[idx]

Bump(n, cap) == IF n < cap THEN n + 1 ELSE n

\* The cap of the per-cycle counters: one more than the longest result list.
CountCap == IF Calm THEN maxResults + 1 ELSE MaxList + 1

\* Mutant of NextEntry: the loop is left after the entry at hand, whatever
\* is left of the list.
NextEntryEarlySleep(outcome) ==
  /\ outcomes' = Append(outcomes, outcome)
  /\ readRaised' = {}
  /\ message_data' = <<>>
  /\ idx' = idx + 1
  /\ pc' = "sleep"

\* The loop moves on from the current entry (a `continue`, or the end of
\* the loop body): to the next entry, or out of the loop and into
\* time.sleep when this was the last one.
NextEntry(outcome) ==
  /\ outcomes' = Append(outcomes, outcome)
  /\ readRaised' = {}
  /\ message_data' = <<>>
  /\ idx' = idx + 1
  /\ pc' = IF idx < Len(messages) THEN "check_raw" ELSE "sleep"

\* How the write of one key ended, for the history: the storage access
\* raised, the INSERT raised a constraint error, the key was in the table
\* already and was kept, or the key was added.
WriteResult(table, key, ok) ==
  IF ~ok THEN "raised"
  ELSE IF InsertConflict(table, key) THEN "conflict"
  ELSE IF SelectId(table, key) THEN "kept" ELSE "added"

\* A read or a write of the table that raised (ok = FALSE) is recorded.
StorageAccess(ok) ==
  /\ storageFault' = Rec({"delivery", "retry", "skip", "live", "paired",
                          "twice"},
                          storageFault \/ ~ok, storageFault)
  /\ dirty' = Rec({"scenario"}, dirty \/ ~ok, dirty)

\* Mutant of AfterSearchError: the exception of the search leaves
\* poll_gmail and start_polling, and the loop is over.
AfterSearchErrorUncaught == "stopped"

\* Where the loop is after the search raised: poll_gmail's except clause
\* logs the error and returns, and start_polling sleeps.
AfterSearchError == "sleep"

\* start_polling wakes up and calls poll_gmail, whose messages.list call
\* returns a result list or raises; an exception ends the cycle in
\* poll_gmail's except clause and the loop sleeps again.
Querying ==
  /\ pc = "sleep"
  /\ Polling
  /\ \E raised \in SearchRaises, result \in SearchResults :
       /\ messages' = IF raised THEN <<>> ELSE result
       /\ pc' = IF raised THEN AfterSearchError
                ELSE IF result = <<>> THEN "sleep" ELSE "check_raw"
       /\ dirty' = Rec({"scenario"}, raised, dirty)
       /\ retryNow' = Rec({"retry"},
            IF raised THEN {} ELSE failedIds \cap Range(result), retryNow)
       /\ failedIds' = Rec({"retry"},
            IF raised THEN failedIds ELSE failedIds \ Range(result), failedIds)
       /\ due' = Rec({"reset"},
            IF raised THEN {} ELSE owed \cap Range(result), due)
       /\ owed' = Rec({"reset"},
            IF raised THEN owed ELSE owed \ Range(result), owed)
  /\ idx' = 1
  /\ message_data' = <<>>
  /\ lastRead' = Rec({"delivery"}, "none", lastRead)
  /\ outcomes' = <<>>
  /\ posts' = 0
  /\ fetches' = 0
  /\ readRaised' = {}
  /\ prev' = Rec({"scenario"},
       IF dirty THEN NoCycle
       ELSE [messages |-> messages, outcomes |-> outcomes, clean |-> TRUE], prev)
  /\ skippedEarlier' = Rec({"skip"},
       skippedEarlier \cup
         {messages[e] : e \in {k \in 1..Len(outcomes) :
                                 outcomes[k] = "skip_content"}},
       skippedEarlier)
  /\ settled' = Rec({"live"},
       settled \cup {m \in Ids : accepted[m] > 0 /\ SelectId(ledger, m)},
       settled)
  /\ UNCHANGED <<ledger, mailbox, healthResp, observe, accepted, everReset,
                 storageFault, lastWrite, sinceReset, resetPc>>
  /\ UNCHANGED <<config, boot, sent, simulated>>

\* if self.is_message_processed(message_id): ... continue
CheckRawId ==
  /\ pc = "check_raw"
  /\ \E ok \in StorageOutcomes :
       /\ IF is_message_processed(ledger, message_id, ok)
          THEN NextEntry("skip_raw")
          ELSE /\ pc' = "fetch"
               /\ readRaised' = Rec({"delivery"},
                    IF ok THEN readRaised ELSE readRaised \cup {"raw"},
                    readRaised)
               /\ UNCHANGED <<outcomes, message_data, idx>>
       /\ lastRead' = Rec({"delivery"}, IF ok THEN "ok" ELSE "raised", lastRead)
       /\ StorageAccess(ok)
  /\ UNCHANGED <<ledger, mailbox, messages, healthResp, observe, posts,
                 fetches, accepted, everReset, lastWrite, prev, failedIds,
                 retryNow, owed, due, sinceReset, resetPc>>
  /\ UNCHANGED <<config, boot, sent, skippedEarlier, settled,
                 simulated>>

\* Mutant of FetchFailed: the failed fetch ends the cycle.
FetchFailedAbort ==
  /\ outcomes' = Append(outcomes, "fetch_fail")
  /\ readRaised' = {}
  /\ message_data' = <<>>
  /\ idx' = idx + 1
  /\ pc' = "sleep"

\* get_message_details returned None: `if message_data:` is false and the
\* loop takes the next entry.
FetchFailed == NextEntry("fetch_fail")

\* message_data = self.get_message_details(message_id): the normalized
\* message, or None when messages.get raises.
FetchDetail ==
  /\ pc = "fetch"
  /\ fetches' = Bump(fetches, CountCap)
  /\ lastRead' = Rec({"delivery"}, "none", lastRead)
  /\ \E ok \in FetchOutcomes :
       IF ok
       THEN /\ message_data' = <<mailbox[message_id]>>
            /\ pc' = "check_content"
            /\ UNCHANGED <<outcomes, idx, dirty, readRaised>>
       ELSE /\ FetchFailed
            /\ dirty' = Rec({"scenario"}, TRUE, dirty)
  /\ UNCHANGED <<ledger, mailbox, messages, healthResp, observe, posts,
                 accepted, everReset, storageFault, lastWrite, prev,
                 failedIds, retryNow, owed, due, sinceReset, resetPc>>
  /\ UNCHANGED <<config, boot, sent, skippedEarlier, settled,
                 simulated>>

\* Mutant of CheckContentId: the raw id of a message skipped by content key
\* is marked processed.
CheckContentIdMarking ==
  /\ pc = "check_content"
  /\ \E ok \in StorageOutcomes :
       /\ IF is_duplicate_by_content(ledger, message_data[1], ok)
          THEN /\ NextEntry("skip_content")
               /\ ledger' = mark_message_processed(ledger, message_id, TRUE)
          ELSE /\ pc' = "notify"
               /\ ledger' = ledger
               /\ readRaised' = Rec({"delivery"},
                    IF ok THEN readRaised ELSE readRaised \cup {"content"},
                    readRaised)
               /\ UNCHANGED <<outcomes, message_data, idx>>
       /\ lastRead' = Rec({"delivery"}, IF ok THEN "ok" ELSE "raised", lastRead)
       /\ StorageAccess(ok)
  /\ UNCHANGED <<mailbox, messages, healthResp, observe, posts,
                 fetches, accepted, everReset, lastWrite, prev, failedIds,
                 retryNow, owed, due, sinceReset, resetPc>>
  /\ UNCHANGED <<config, boot, sent, skippedEarlier, settled,
                 simulated>>

\* if self.is_duplicate_by_content(message_data): ... continue
CheckContentId ==
  /\ pc = "check_content"
  /\ \E ok \in StorageOutcomes :
       /\ IF is_duplicate_by_content(ledger, message_data[1], ok)
          THEN NextEntry("skip_content")
          ELSE /\ pc' = "notify"
               /\ readRaised' = Rec({"delivery"},
                    IF ok THEN readRaised ELSE readRaised \cup {"content"},
                    readRaised)
               /\ UNCHANGED <<outcomes, message_data, idx>>
       /\ lastRead' = Rec({"delivery"}, IF ok THEN "ok" ELSE "raised", lastRead)
       /\ StorageAccess(ok)
  /\ UNCHANGED <<ledger, mailbox, messages, healthResp, observe, posts,
                 fetches, accepted, everReset, lastWrite, prev, failedIds,
                 retryNow, owed, due, sinceReset, resetPc>>
  /\ UNCHANGED <<config, boot, sent, skippedEarlier, settled,
                 simulated>>

\* The sink accepted the delivery: requests.post returned status 200.
Accepted200(response) == ~response.raised /\ response.status_code = 200

\* Mutant of DeliveryFailed: the delivery is tried again at once.
DeliveryFailedRetry ==
  /\ pc' = "notify"
  /\ UNCHANGED <<outcomes, message_data, idx, readRaised>>

\* else: logger.error("Failed to post message to Slack"): the loop takes
\* the next entry.
DeliveryFailed == NextEntry("post_fail")

\* if self.post_to_slack(message_data): one requests.post; on True the loop
\* goes on to the two mark calls, on False it logs and takes the next entry.
Notify ==
  /\ pc = "notify"
  /\ posts' = Bump(posts, CountCap)
  /\ lastRead' = Rec({"delivery"}, "none", lastRead)
  /\ \E response \in SinkAnswers :
       /\ IF post_to_slack(response)
          THEN /\ pc' = "mark_raw"
               /\ UNCHANGED <<outcomes, message_data, idx, readRaised>>
          ELSE DeliveryFailed
       /\ accepted' = Rec({"delivery", "retry", "reset", "live", "paired",
                           "twice"},
            IF Accepted200(response)
            THEN [accepted EXCEPT ![message_id] = Bump(@, MaxCount)]
            ELSE accepted, accepted)
       /\ sinceReset' = Rec({"reset"},
            IF Accepted200(response) THEN sinceReset \cup {message_id}
            ELSE sinceReset, sinceReset)
       /\ failedIds' = Rec({"retry"},
            IF Accepted200(response) THEN failedIds \ {message_id}
            ELSE failedIds \cup {message_id}, failedIds)
       /\ dirty' = Rec({"scenario"}, dirty \/ ~Accepted200(response), dirty)
  /\ sent' = Rec({"payload"},
       <<[payload |-> slack_payload(message_data[1], config),
          message_data |-> message_data[1]]>>, sent)
  /\ UNCHANGED <<ledger, mailbox, messages, healthResp, observe, fetches,
                 everReset, storageFault, lastWrite, prev, retryNow, owed,
                 due, resetPc>>
  /\ UNCHANGED <<config, boot, skippedEarlier, settled,
                 simulated>>

\* self.mark_message_processed(message_id)
MarkRaw ==
  /\ pc = "mark_raw"
  /\ \E ok \in WriteOutcomes :
       /\ ledger' = mark_message_processed(ledger, message_id, ok)
       /\ lastWrite' = Rec({"delivery"}, WriteResult(ledger, message_id, ok),
                           lastWrite)
       /\ StorageAccess(ok)
  /\ pc' = "mark_content"
  /\ lastRead' = Rec({"delivery"}, "none", lastRead)
  /\ UNCHANGED <<mailbox, messages, idx, message_data, healthResp, observe,
                 outcomes, posts, fetches, accepted, everReset, readRaised, prev,
                 failedIds, retryNow, owed, due, sinceReset, resetPc>>
  /\ UNCHANGED <<config, boot, sent, skippedEarlier, settled,
                 simulated>>

\* self.mark_content_processed(message_data); new_messages += 1
MarkContent ==
  /\ pc = "mark_content"
  /\ \E ok \in WriteOutcomes :
       /\ ledger' = mark_content_processed(ledger, message_data[1], ok)
       /\ lastWrite' = Rec({"delivery"},
            WriteResult(ledger, create_content_hash(message_data[1]), ok),
            lastWrite)
       /\ StorageAccess(ok)
  /\ NextEntry("post_ok")
  /\ lastRead' = Rec({"delivery"}, "none", lastRead)
  /\ UNCHANGED <<mailbox, messages, healthResp, observe, posts, fetches,
                 accepted, everReset, prev, failedIds, retryNow, owed, due,
                 sinceReset, resetPc>>
  /\ UNCHANGED <<config, boot, sent, skippedEarlier, settled,
                 simulated>>

\* Where the polling thread is, for the history: asleep between two cycles,
\* between a delivery and the end of its commit, or elsewhere in a cycle.
PcClass ==
  IF pc = "sleep" THEN "sleep"
  ELSE IF pc \in {"mark_raw", "mark_content"} THEN "commit" ELSE "cycle"

\* clear_database(), run by an operator as a process of its own: DELETE FROM
\* processed and commit; when the storage access raises the error is
\* printed and the table is left as it was.
clear_database ==
  /\ \E ok \in BOOLEAN :
       IF ok
       THEN /\ ledger' = DeleteAll(ledger)
            /\ everReset' = Rec({"delivery", "skip", "live", "paired", "twice"}, TRUE, everReset)
            /\ lastWrite' = Rec({"delivery"}, "none", lastWrite)
            /\ dirty' = Rec({"scenario"}, TRUE, dirty)
            /\ owed' = Rec({"reset"}, {m \in Ids : accepted[m] > 0}, owed)
            /\ due' = Rec({"reset"}, {}, due)
            /\ sinceReset' = Rec({"reset"}, {}, sinceReset)
            /\ resetPc' = Rec({"reset"}, PcClass, resetPc)
       ELSE UNCHANGED <<ledger, everReset, lastWrite, dirty, owed, due,
                        sinceReset, resetPc>>
  /\ UNCHANGED <<mailbox, pc, messages, idx, message_data, healthResp,
                 observe, outcomes, posts, fetches, accepted, storageFault,
                 readRaised, lastRead, prev, failedIds, retryNow>>
  /\ UNCHANGED <<config, boot, sent, skippedEarlier, settled,
                 simulated>>

\* Mutant of health: the handler probes the store by writing a row.
health_probing ==
  /\ Serving
  /\ healthResp' = health_response(config, health_mode(boot))
  /\ ledger' = ledger \cup {"health"}
  /\ UNCHANGED <<mailbox, pc, messages, idx, message_data, config, boot>>
  /\ UNCHANGED histVars

\* GET /health: a report of the monitor's configuration.
health ==
  /\ Serving
  /\ healthResp' = health_response(config, health_mode(boot))
  /\ UNCHANGED <<ledger, mailbox, pc, messages, idx, message_data, config,
                 boot>>
  /\ UNCHANGED histVars

Next ==
  \/ Querying
  \/ CheckRawId
  \/ FetchDetail
  \/ CheckContentId
  \/ Notify
  \/ MarkRaw
  \/ MarkContent
  \/ clear_database
  \/ health

Spec == Init /\ [][Next]_vars

\* The same program, with the history variables of the other observers.
InitRetry == InitProgram /\ InitHistory /\ observe = "retry"
SpecRetry == InitRetry /\ [][Next]_vars

InitReset == InitProgram /\ InitHistory /\ observe = "reset"
SpecReset == InitReset /\ [][Next]_vars

InitScenario == InitProgram /\ InitHistory /\ observe = "scenario"
SpecScenario == InitScenario /\ [][Next]_vars

\* The same program, recording the ids skipped by content key.
InitSkip == InitProgram /\ InitHistory /\ observe = "skip"
SpecSkip == InitSkip /\ [][Next]_vars

\* The same program with a table whose writes succeed, recording the
\* deliveries, the resets and the reads that raised.
InitPaired == InitProgram /\ InitHistory /\ observe = "paired"
SpecPaired == InitPaired /\ [][Next]_vars

\* The same program with a provider that may return an id more than once in
\* one list, recording the deliveries, the resets and the storage faults.
InitTwice == InitProgram /\ InitHistory /\ observe = "twice"
SpecTwice == InitTwice /\ [][Next]_vars

\* Mailboxes of two messages that differ in raw id, sender and thread id
\* only: one pair with a record id in the body, one pair without.
TwinOf(content) ==
  [content EXCEPT !.sender = "bot", !.thread_id = "t9"]

TwinMailboxes ==
  { [m \in Ids |-> IF m = "A" THEN c ELSE TwinOf(c)] :
      c \in {MsgRecord7, MsgPlain} }

\* The program over the mailboxes of `Mailboxes` and the twin mailboxes.
InitKey ==
  /\ ledger = {}
  /\ mailbox \in Mailboxes \cup TwinMailboxes
  /\ pc = "sleep"
  /\ messages = <<>>
  /\ idx = 0
  /\ message_data = <<>>
  /\ healthResp = <<>>
  /\ config = monitor
  /\ boot = Started
  /\ InitHistory
  /\ observe = "paired"

SpecKey == InitKey /\ [][Next]_vars

\* An operator's interrupt (SIGINT) while the service runs in worker mode:
\* Python raises KeyboardInterrupt in the thread that runs start_polling at
\* whatever statement it is at. It is no Exception, so none of the except
\* clauses of poll_gmail and of the calls it makes catches it; it reaches
\* `except KeyboardInterrupt: break` of start_polling and the loop is over,
\* with the table and the cycle's variables as they were at that statement.
KeyboardInterrupt ==
  /\ pc # "stopped"
  /\ pc' = "stopped"
  /\ UNCHANGED <<ledger, mailbox, messages, idx, message_data, healthResp,
                 config, boot>>
  /\ UNCHANGED histVars

\* The service with an operator who may interrupt it.
InitCancel == InitProgram /\ InitHistory /\ observe = "cancel"

NextCancel == Next \/ KeyboardInterrupt

SpecCancel == InitCancel /\ [][NextCancel]_vars

\* The service over the mailbox `Inbox`, with provider, sink and storage
\* working.
InitCap ==
  /\ ledger = {}
  /\ mailbox = [m \in Range(Inbox) |-> MsgOfInbox(m)]
  /\ pc = "sleep"
  /\ messages = <<>>
  /\ idx = 0
  /\ message_data = <<>>
  /\ healthResp = <<>>
  /\ config = monitor
  /\ boot = Started
  /\ InitHistory
  /\ observe = "cap"

\* The steps of the polling thread.
Poller ==
  \/ Querying
  \/ CheckRawId
  \/ FetchDetail
  \/ CheckContentId
  \/ Notify
  \/ MarkRaw
  \/ MarkContent

\* The service left to itself: the polling thread and the health endpoint,
\* no reset and no interrupt by an operator.
NextCap == Poller \/ health

\* The polling thread is a thread of its own and keeps taking steps:
\* start_polling is `while True`, and its sleep ends.
SpecCapFair == InitCap /\ [][NextCap]_vars /\ WF_vars(Poller)

\* The service when every search returns message "A", with the premises of
\* eventual delivery as fairness: the polling thread keeps taking steps
\* (start_polling is `while True`, and its sleep ends), and the fetch of
\* "A" and its delivery, when tried again and again, succeed at some time.
FetchedA == FetchDetail /\ message_id = "A" /\ pc' = "check_content"
AcceptedA == Notify /\ message_id = "A" /\ pc' = "mark_raw"

InitLive == InitProgram /\ InitHistory /\ observe = "live"

SpecLiveFair ==
  /\ InitLive
  /\ [][Next]_vars
  /\ WF_vars(Poller)
  /\ SF_vars(FetchedA)
  /\ SF_vars(AcceptedA)

\* requests.post(self.slack_webhook_url, json=payload) is called with no
\* timeout: when the sink never answers the call never returns, and the
\* thread that runs poll_gmail stays in it.
DeliveryHangs ==
  /\ pc = "notify"
  /\ pc' = "hung"
  /\ posts' = Bump(posts, CountCap)
  /\ UNCHANGED <<ledger, mailbox, messages, idx, message_data, healthResp,
                 config, boot>>
  /\ UNCHANGED <<observe, outcomes, fetches, accepted, everReset,
                 storageFault, readRaised, lastRead, lastWrite, dirty, prev,
                 failedIds, retryNow, owed, due, sinceReset, resetPc, sent,
                 skippedEarlier, settled,
                 simulated>>

\* The polling thread with a sink that may never answer: over the mailbox
\* `Inbox` with provider, sink and storage working, and over the mailboxes
\* of `Mailboxes` with calls that return or raise as they like.
InitTerm ==
  \/ InitCap
  \/ InitProgram /\ InitHistory /\ observe = "term"

NextTerm == Poller \/ health \/ DeliveryHangs

\* Every call the polling thread makes returns or raises, unless it is a
\* delivery that hangs: the thread keeps taking the steps it can take.
SpecTermFair == InitTerm /\ [][NextTerm]_vars /\ WF_vars(Poller)

\* create_content_hash applied to one message, as mark_content_processed
\* does it: the message is taken from the mailbox and its key is written to
\* the table.
KeyOfMessage ==
  /\ pc = "extract"
  /\ message_data' = <<mailbox["A"]>>
  /\ ledger' = mark_content_processed(ledger, mailbox["A"], TRUE)
  /\ pc' = "extracted"
  /\ UNCHANGED <<mailbox, messages, idx, healthResp, config, boot>>
  /\ UNCHANGED histVars

\* The key extraction on its own, over the bodies of `Bodies`.
InitExtract ==
  /\ ledger = {}
  /\ mailbox \in {[m \in Ids |-> MsgOfBody(b)] : b \in Bodies(MaxBody)}
  /\ pc = "extract"
  /\ messages = <<>>
  /\ idx = 0
  /\ message_data = <<>>
  /\ healthResp = <<>>
  /\ config = monitor
  /\ boot = Started
  /\ InitHistory
  /\ observe = "extract"

NextExtract == KeyOfMessage

SpecExtract == InitExtract /\ [][NextExtract]_vars

\* ------------------------------------------------- the decoder on its own

\* The base64url data of a text, as the provider encodes it.
Enc(text) == b64encode(utf8_encode(text))

\* "Hi", "<b>Bob</b>", "<br>", and the snippet "Hi B".
PlainText == <<72, 105>>
HtmlText == <<60, 98, 62, 66, 111, 98, 60, 47, 98, 62>>
TagOnlyHtml == <<60, 98, 114, 62>>
SnippetText == <<72, 105, 32, 66>>

\* "<p>Hi <b>Bob</b></p>" and "Hi Bob".
ExampleHtml ==
  <<60, 112, 62, 72, 105, 32, 60, 98, 62, 66, 111, 98, 60, 47, 98, 62,
    60, 47, 112, 62>>
HiBob == <<72, 105, 32, 66, 111, 98>>

\* Data that does not decode: the encoding of "Hi" with its padding cut
\* off, and the encoding of the byte 0xFF, which is no UTF-8.
DataCut == SubSeq(Enc(PlainText), 1, 3)
DataNoUtf8 == b64encode(<<255>>)

\* A part with data and no parts; a part with parts.
Leaf(mimeType, data) == [mimeType |-> mimeType, body |-> [data |-> data]]
Composite(parts) == [mimeType |-> "multipart/alternative", parts |-> parts]

\* The leaves of the model's body trees: plain text that decodes, that does
\* not, or with no data; HTML with text or with tags only; an attachment.
Leaves ==
  {Leaf("text/plain", d) : d \in {Enc(PlainText), DataCut, DataNoUtf8, <<>>}}
    \cup {Leaf("text/html", d) : d \in {Enc(HtmlText), Enc(TagOnlyHtml)}}
    \cup {Leaf("image/png", Enc(PlainText))}

\* Composite parts of up to two leaves, and the body trees: a leaf, or a
\* composite of up to n leaves and composites of leaves.
Nested == {Composite(ps) : ps \in UNION {[1..k -> Leaves] : k \in 0..2}}
Trees(n) ==
  Leaves \cup
  {Composite(ps) :
     ps \in UNION {[1..k -> Leaves \cup Nested] : k \in 0..n}}

\* Every text of up to MaxText characters out of '<', '>', 'H' and U+00E9,
\* as a plain or an HTML part, alone or in a composite; and the example.
TextAlphabet == {60, 62, 72, 233}
Texts == UNION {[1..n -> TextAlphabet] : n \in 0..MaxText} \cup {ExampleHtml}
TextTrees ==
  UNION {{Leaf(mt, Enc(t)), Composite(<<Leaf(mt, Enc(t))>>)} :
           mt \in {"text/plain", "text/html"}, t \in Texts}

\* The headers of the model's messages.
Headers ==
  <<[name |-> "From", value |-> "crm"],
    [name |-> "Subject", value |-> "Cancellation"],
    [name |-> "Date", value |-> "Tue, 16 Sep 2025 12:00:00 +0200"]>>

\* A message as messages.get(format='full') returns it: id, threadId and
\* snippet are fields of the message; its payload is the root of the body
\* tree, with the headers.
ProviderMessage(tree, snippet) ==
  [id |-> "A", threadId |-> "t0", snippet |-> snippet,
   payload |-> [f \in DOMAIN tree \cup {"headers"} |->
                  IF f = "headers" THEN Headers ELSE tree[f]]]

ProviderMessages(n) ==
  {ProviderMessage(tree, snippet) :
     tree \in Trees(n) \cup TextTrees, snippet \in {<<>>, SnippetText}}

\* get_message_details applied to the message the provider returns for
\* id "A".
Decoding ==
  /\ pc = "decode"
  /\ message_data' = <<get_message_details(mailbox["A"])>>
  /\ pc' = "decoded"
  /\ UNCHANGED <<ledger, mailbox, messages, idx, healthResp, config, boot>>
  /\ UNCHANGED histVars

InitDecode ==
  /\ ledger = {}
  /\ mailbox \in {[m \in Ids |-> msg] : msg \in ProviderMessages(MaxParts)}
  /\ pc = "decode"
  /\ messages = <<>>
  /\ idx = 0
  /\ message_data = <<>>
  /\ healthResp = <<>>
  /\ config = monitor
  /\ boot = Started
  /\ InitHistory
  /\ observe = "decode"

NextDecode == Decoding

SpecDecode == InitDecode /\ [][NextDecode]_vars

\* ------------------------------------------------- the payloads delivered

\* The service over mailboxes whose messages have a body of 0 to MaxBody
\* tokens, recording what is posted to the sink.
InitPayload ==
  /\ ledger = {}
  /\ mailbox \in {[m \in Ids |-> MsgOfBody(b)] :
                    b \in UNION {[1..n -> {"x"}] : n \in 0..MaxBody}}
  /\ pc = "sleep"
  /\ messages = <<>>
  /\ idx = 0
  /\ message_data = <<>>
  /\ healthResp = <<>>
  /\ config = monitor
  /\ boot = Started
  /\ InitHistory
  /\ observe = "payload"

SpecPayload == InitPayload /\ [][Next]_vars

\* The simulator is run on a message of the mailbox, with the query of the
\* monitor's configuration: it builds the payload and displays it.
Simulating ==
  /\ \E m \in Ids :
       simulated' =
         <<[payload |-> create_slack_payload(mailbox[m], config.gmail_query),
            message_data |-> mailbox[m]]>>
  /\ UNCHANGED <<ledger, mailbox, pc, messages, idx, message_data,
                 healthResp, config, boot>>
  /\ UNCHANGED <<observe, outcomes, posts, fetches, accepted, everReset,
                 storageFault, readRaised, lastRead, lastWrite, dirty, prev,
                 failedIds, retryNow, owed, due, sinceReset, resetPc, sent,
                 skippedEarlier, settled>>

\* A configuration with a query of its own (GMAIL_QUERY is set).
monitor_own_query == [monitor EXCEPT !.gmail_query = "from:billing"]

\* The service and the simulator side by side, over messages with and
\* without a body, with the default query and with another one.
InitSim ==
  /\ ledger = {}
  /\ mailbox \in
       {[m \in Ids |-> IF m = "A" THEN MsgRecord7 ELSE MsgOfBody(b)] :
          b \in {<<>>, <<"x">>}}
  /\ pc = "sleep"
  /\ messages = <<>>
  /\ idx = 0
  /\ message_data = <<>>
  /\ healthResp = <<>>
  /\ config \in {monitor, monitor_own_query}
  /\ boot = Started
  /\ InitHistory
  /\ observe = "payload"

NextSim == Next \/ Simulating

SpecSim == InitSim /\ [][NextSim]_vars

\* ------------------------------------------------------------ the start

\* What a process can find when it starts. The credentials of the
\* environment are valid, missing (one of the three required variables is
\* not set), malformed (the private key is no key) or rejected (well formed,
\* but the provider refuses them: a revoked key, no delegation); state.db
\* can be opened or not; MODE is one of the three modes, one of them in
\* another case, anything else, or not set.
Modes ==
  {"server", "worker", "combined", "Server", "WORKER", "Combined", "other",
   Unset}

Boots ==
  [credentials : {"valid", "missing", "malformed", "rejected"},
   database : {"ok", "fails"},
   mode : Modes]

\* GmailSlackMonitor() raises: init_database re-raises the error of sqlite3;
\* init_gmail_service raises when a variable is missing and re-raises the
\* error of from_service_account_info on a key that is none. Neither sends a
\* request to the provider, so credentials it would refuse pass.
ConstructorRaises(b) ==
  b.database = "fails" \/ b.credentials \in {"missing", "malformed"}

\* The module is loaded and main() runs: `monitor = GmailSlackMonitor()` at
\* module level, then the mode is looked at. An exception of the constructor
\* ends the process before main is called; an unknown mode makes main
\* return.
Construct ==
  /\ pc = "import"
  /\ pc' = IF ConstructorRaises(boot) THEN "dead"
           ELSE IF main_mode(boot) \notin {"server", "worker", "combined"}
           THEN "dead" ELSE "sleep"
  /\ UNCHANGED <<ledger, mailbox, messages, idx, message_data, healthResp,
                 config, boot>>
  /\ UNCHANGED histVars

InitStartup ==
  /\ ledger = {}
  /\ mailbox \in Mailboxes
  /\ pc = "import"
  /\ messages = <<>>
  /\ idx = 0
  /\ message_data = <<>>
  /\ healthResp = <<>>
  /\ config = monitor
  /\ boot \in Boots
  /\ InitHistory
  /\ observe = "startup"

NextStartup == Construct \/ Next

SpecStartup == InitStartup /\ [][NextStartup]_vars

\* The start and the run of a process with and without SLACK_WEBHOOK_URL,
\* everything else as `Started`.
InitNoSink ==
  /\ ledger = {}
  /\ mailbox \in Mailboxes
  /\ pc = "import"
  /\ messages = <<>>
  /\ idx = 0
  /\ message_data = <<>>
  /\ healthResp = <<>>
  /\ config \in {monitor, monitor_no_webhook}
  /\ boot = Started
  /\ InitHistory
  /\ observe = "retry"

SpecNoSink == InitNoSink /\ [][NextStartup]_vars

\* ---------------------------------------------------------- properties

NoRecordId(m) == extract_record_id(mailbox[m]) = ""

SameSubjectAndDate(a, b) ==
  /\ mailbox[a].subject = mailbox[b].subject
  /\ mailbox[a].date = mailbox[b].date

\* The entries of this cycle's list that hold message m and ended in one
\* of the given outcomes.
EntriesOf(m, ended) ==
  {e \in 1..Len(outcomes) : messages[e] = m /\ outcomes[e] \in ended}

EntriesOfAny(ended) ==
  {e \in 1..Len(outcomes) : outcomes[e] \in ended}

\* C1 (Idempotence): as long as the ledger was not reset and none of its
\* reads and writes raised, no raw message id has more than one delivery
\* accepted by the sink with HTTP 200, however often the search returned it
\* (in one list or in successive cycles).
C1_Idempotence ==
  (~everReset /\ ~storageFault) => \A m \in Ids : accepted[m] <= 1

\* C1 witness: the same id twice in one result list, delivered at the first
\* entry and skipped by raw id at the second.
C1_Witness ==
  /\ ~everReset /\ ~storageFault
  /\ pc = "sleep"
  /\ Len(messages) = 2 /\ messages[1] = messages[2]
  /\ outcomes = <<"post_ok", "skip_raw">>
  /\ accepted[messages[1]] = 1

\* C2 (Content-identity dedup): as long as the ledger was not reset and none
\* of its reads and writes raised, of two messages with distinct raw ids
\* and the same extracted record id at most one has a delivery accepted
\* with HTTP 200, and that one at most once.
C2_ContentDedup ==
  (~everReset /\ ~storageFault) =>
    \A a \in Ids : \A b \in Ids \ {a} :
      (/\ ~NoRecordId(a)
       /\ extract_record_id(mailbox[a]) = extract_record_id(mailbox[b]))
      => accepted[a] + accepted[b] <= 1

\* C2 witness: A and B carry record id 7 in differently worded bodies; in one
\* cycle A is delivered and B, fetched after A's commit, is skipped by its
\* content key.
C2_Witness ==
  /\ ~everReset /\ ~storageFault
  /\ pc = "sleep"
  /\ messages = <<"A", "B">>
  /\ mailbox["A"].body # mailbox["B"].body
  /\ extract_record_id(mailbox["A"]) = "7"
  /\ extract_record_id(mailbox["B"]) = "7"
  /\ outcomes = <<"post_ok", "skip_content">>
  /\ accepted["A"] = 1 /\ accepted["B"] = 0

\* The candidate at hand has no record id, and another message with no
\* record id and the same subject and date was delivered with HTTP 200 and
\* its content key is in the ledger.
FallbackTwinCommitted ==
  \E a \in Ids \ {message_id} :
    /\ NoRecordId(a) /\ NoRecordId(message_id)
    /\ SameSubjectAndDate(a, message_id)
    /\ accepted[a] > 0
    /\ create_content_hash(mailbox[a]) \in ledger

\* For messages without a record id the content key depends on subject and
\* date only.
FallbackKeyOfSubjectAndDate ==
  \A a \in Ids, b \in Ids :
    (NoRecordId(a) /\ NoRecordId(b) /\ SameSubjectAndDate(a, b))
    => create_content_hash(mailbox[a]) = create_content_hash(mailbox[b])

\* C3 as stated (Fallback identity): messages without a record id that agree
\* in subject and date have the same content key, and once the first is
\* delivered and committed the second never reaches a delivery attempt.
C3_Original ==
  /\ FallbackKeyOfSubjectAndDate
  /\ (pc = "notify" => ~FallbackTwinCommitted)

\* C3 as amended: ... the second never reaches a delivery attempt unless
\* the content-key check made for it raised (the check then answers "not
\* present").
C3_FallbackIdentity ==
  /\ FallbackKeyOfSubjectAndDate
  /\ ((pc = "notify" /\ FallbackTwinCommitted) => "content" \in readRaised)

\* C3 witness: A and B have no record id, the same subject and date, and
\* different senders and bodies; A is delivered and committed, B is skipped
\* by its content key.
C3_Witness ==
  /\ pc = "sleep"
  /\ messages = <<"A", "B">>
  /\ NoRecordId("A") /\ NoRecordId("B") /\ SameSubjectAndDate("A", "B")
  /\ mailbox["A"].sender # mailbox["B"].sender
  /\ mailbox["A"].body # mailbox["B"].body
  /\ outcomes = <<"post_ok", "skip_content">>
  /\ accepted["A"] = 1 /\ accepted["B"] = 0
  /\ create_content_hash(mailbox["A"]) \in ledger

\* Key k is the raw id or the content key of a message of which a delivery
\* was accepted with HTTP 200.
KeyOfDelivered(k) ==
  \E m \in Ids :
    accepted[m] > 0 /\ (k = m \/ k = create_content_hash(mailbox[m]))

\* Every key in the ledger belongs to a message delivered with HTTP 200.
LedgerOnlyDelivered == \A k \in ledger : KeyOfDelivered(k)

\* Only the two mark calls after a successful delivery add keys: no other
\* step of the poller (a skip, a failed fetch, a failed delivery) does.
AddOnlyInCommit ==
  [][pc \notin {"mark_raw", "mark_content"} => ledger' \subseteq ledger]_vars

\* The step of mark_message_processed / of mark_content_processed.
MarkRawStep == pc = "mark_raw" /\ pc' = "mark_content"
MarkContentStep == pc = "mark_content" /\ pc' # "mark_content"

\* C4 as stated (Commit only on success): every key in the ledger was added
\* after a delivery of its message returned 200, no step other than the
\* commit adds a key, and the commit adds both the raw id and the content
\* key.
C4_Original ==
  /\ []LedgerOnlyDelivered
  /\ AddOnlyInCommit
  /\ [][MarkRawStep => message_id \in ledger']_vars
  /\ [][MarkContentStep => create_content_hash(message_data[1]) \in ledger']_vars

\* C4 as amended: ... and the commit calls both adds; each adds its key
\* unless its write raises, in which case the ledger is left as it was.
C4_CommitOnlyOnSuccess ==
  /\ []LedgerOnlyDelivered
  /\ AddOnlyInCommit
  /\ [][MarkRawStep =>
          IF lastWrite' \in {"added", "kept"}
          THEN ledger' = ledger \cup {message_id}
          ELSE ledger' = ledger]_vars
  /\ [][MarkContentStep =>
          IF lastWrite' \in {"added", "kept"}
          THEN ledger' = ledger \cup {create_content_hash(message_data[1])}
          ELSE ledger' = ledger]_vars

\* C4 witness: in one cycle A was delivered and both its keys committed,
\* and B's delivery failed and left neither of its keys.
C4_Witness ==
  /\ pc = "sleep"
  /\ messages = <<"A", "B">>
  /\ outcomes = <<"post_ok", "post_fail">>
  /\ "A" \in ledger /\ create_content_hash(mailbox["A"]) \in ledger
  /\ "B" \notin ledger /\ create_content_hash(mailbox["B"]) \notin ledger
  /\ accepted["B"] = 0

\* The step of a delivery that failed: the loop leaves "notify" without
\* going on to the commit.
DeliveryFailedStep == pc = "notify" /\ pc' \notin {"notify", "mark_raw"}

\* A failed delivery adds nothing to the ledger.
FailureAddsNothing == [][DeliveryFailedStep => ledger' = ledger]_vars

\* Message m, whose delivery failed before this cycle, was fetched in this
\* cycle and its delivery attempted again (or its fetch failed).
RetriedNow(m) == EntriesOf(m, {"post_ok", "post_fail", "fetch_fail"}) # {}

\* A delivery of a message with m's content key (m itself or another) was
\* accepted with HTTP 200.
ContentDelivered(m) ==
  \E n \in Ids :
    /\ create_content_hash(mailbox[n]) = create_content_hash(mailbox[m])
    /\ accepted[n] > 0

PostsOfEntries ==
  Cardinality(EntriesOfAny({"post_ok", "post_fail"}))
    + (IF pc \in {"mark_raw", "mark_content"} THEN 1 ELSE 0)

\* C6 (No retry within a cycle): in every state of a cycle the HTTP POSTs
\* sent in it are exactly one for each entry of the result list that reached
\* its delivery, so no entry is posted twice, a failed one included.
C6_NoRetryInCycle ==
  /\ posts = PostsOfEntries
  /\ Len(outcomes) <= Len(messages)

\* C6 witness: a cycle over [A, B] in which A's delivery failed and B's
\* succeeded ended with two POSTs.
C6_Witness ==
  /\ pc = "sleep"
  /\ messages = <<"A", "B">>
  /\ outcomes = <<"post_fail", "post_ok">>
  /\ posts = 2

\* C7 (Ledger monotonicity): every step keeps all keys of the ledger, except
\* the step of the reset script, which leaves it empty.
C7_LedgerMonotone ==
  [][(ledger \subseteq ledger') \/ (clear_database /\ ledger' = {})]_vars

\* C7 witness: after a reset, polling has put three keys into the ledger and
\* a health request was served.
C7_Witness ==
  /\ everReset
  /\ healthResp # <<>>
  /\ Cardinality(ledger) >= 3

\* The step of the reset script leaves the ledger empty (a reset whose
\* storage access raised changed nothing and is no step).
ResetEmptiesLedger == [][clear_database => ledger' = {}]_vars

\* A message with m's content key (m itself or another) was delivered with
\* HTTP 200 since the last reset.
DeliveredSinceReset(m) ==
  \E n \in sinceReset :
    create_content_hash(mailbox[n]) = create_content_hash(mailbox[m])

\* C8 as stated (Reset): the reset leaves the ledger with 0 keys, and a
\* message delivered before the reset is delivered again in the next cycle
\* whose search returns it (read in the claim's favour: the reset ran while
\* the poller slept, and no fetch and no delivery failed in that cycle).
C8_Original ==
  /\ ResetEmptiesLedger
  /\ []((/\ pc = "sleep" /\ resetPc = "sleep"
         /\ EntriesOfAny({"fetch_fail", "post_fail"}) = {})
        => \A m \in due : EntriesOf(m, {"post_ok"}) # {})

\* C8 as amended: ... unless the reset fell between a delivery and the end
\* of its commit, in the next cycle whose search returns a message delivered
\* before the reset, that message or one with the same content key is
\* delivered since the reset, or its fetch or its delivery fails in that
\* cycle.
C8_Reset ==
  /\ ResetEmptiesLedger
  /\ []((pc = "sleep" /\ resetPc # "commit")
        => \A m \in due :
             \/ DeliveredSinceReset(m)
             \/ EntriesOf(m, {"fetch_fail", "post_fail"}) # {})

\* C8 witness: A was delivered, the reset ran while the poller slept, and
\* the next cycle that returned A delivered it a second time.
C8_Witness ==
  /\ pc = "sleep" /\ resetPc = "sleep"
  /\ ledger # {}
  /\ "A" \in due /\ "A" \in sinceReset
  /\ EntriesOf("A", {"post_ok"}) # {}
  /\ accepted["A"] = 2

\* A finished cycle whose list is two distinct ids, the first of which was
\* new, has record id 7, and was delivered with HTTP 200; no delivery or
\* fetch failed, no storage access raised and no reset ran since the cycle
\* began.
FirstOfTwoDelivered(list, ended) ==
  /\ Len(list) = 2 /\ Len(ended) = 2
  /\ list[1] # list[2]
  /\ create_content_hash(mailbox[list[1]]) = "record_7"
  /\ ended[1] = "post_ok"

\* C9 (Two-cycle scenario): after a cycle over [A, B] in which A was new,
\* carries record id 7 and was delivered with 200, the ledger contains A
\* and record_7; when the cycle after it returns [A, B] again, both entries
\* are skipped and no POST is sent in it (in both cycles every delivery got
\* 200, no fetch failed, no storage access raised, and no reset ran).
C9_TwoCycles ==
  /\ (pc = "sleep" /\ ~dirty /\ FirstOfTwoDelivered(messages, outcomes))
     => {messages[1], "record_7"} \subseteq ledger
  /\ (/\ pc = "sleep" /\ ~dirty /\ prev.clean
      /\ prev.messages = messages
      /\ FirstOfTwoDelivered(prev.messages, prev.outcomes))
     => (/\ \A e \in 1..2 : outcomes[e] \in {"skip_raw", "skip_content"}
         /\ posts = 0)

\* C9 witness: the first cycle over [A, B] delivered A (body "Record ID: 7")
\* and B; the second cycle over [A, B] has ended, A skipped by its raw id.
C9_Witness ==
  /\ pc = "sleep" /\ ~dirty /\ prev.clean
  /\ messages = <<"A", "B">>
  /\ prev.messages = messages
  /\ mailbox["A"] = MsgRecord7
  /\ prev.outcomes = <<"post_ok", "post_ok">>
  /\ outcomes = <<"skip_raw", "skip_raw">>
  /\ {"A", "record_7"} \subseteq ledger

\* messages.get calls this cycle's entries account for: one for each entry
\* that did not end at the raw-id check, and one for the entry at hand when
\* it is past its fetch.
FetchesOfEntries ==
  Cardinality(EntriesOfAny(Outcomes \ {"skip_raw"}))
    + (IF pc \in {"check_content", "notify", "mark_raw", "mark_content"}
       THEN 1 ELSE 0)

\* An entry skipped by raw id costs no fetch, and an entry skipped by raw
\* id or by content key costs no POST.
SkippedCostNothing ==
  /\ fetches = FetchesOfEntries
  /\ posts = PostsOfEntries

\* C10 as stated (Skip predicate and check order): a candidate whose raw id
\* is in the ledger goes no further than the raw-id check (no fetch, no
\* delivery attempt), and a candidate whose content key is in the ledger
\* gets no delivery attempt.
C10_Original ==
  /\ (pc \in {"fetch", "check_content", "notify"} => message_id \notin ledger)
  /\ (pc = "notify" => create_content_hash(message_data[1]) \notin ledger)
  /\ SkippedCostNothing

\* C10 as amended: ... unless the storage access of that check raised, in
\* which case the check answers "not present" and the candidate goes on.
C10_SkipOrder ==
  /\ (pc \in {"fetch", "check_content", "notify"} /\ message_id \in ledger)
     => "raw" \in readRaised
  /\ (pc = "notify" /\ create_content_hash(message_data[1]) \in ledger)
     => "content" \in readRaised
  /\ SkippedCostNothing

\* C10 witness: a cycle over two entries, the first skipped by its raw id
\* without a fetch, the second fetched and skipped by its content key, and
\* no POST sent.
C10_Witness ==
  /\ pc = "sleep"
  /\ ~storageFault
  /\ outcomes = <<"skip_raw", "skip_content">>
  /\ messages[1] \in ledger
  /\ create_content_hash(mailbox[messages[2]]) \in ledger
  /\ fetches = 1
  /\ posts = 0

\* Pattern i of the ordered list matches somewhere in body b.
MatchesSomewhere(i, b) ==
  \E k \in 1..Len(b) : MatchAt(patterns[i], b, k) # ""

\* C11 (Extraction precedence): the key of a message is record_<N> with N
\* taken from the first pattern of the ordered list that matches anywhere in
\* the body, wherever matches of later patterns lie; "Record ID: 42 x #99"
\* and "#99 x Record ID: 42" both give record_42.
C11_ExtractionPrecedence ==
  pc = "extracted" =>
    LET b == message_data[1].body
    IN /\ \A i \in 1..Len(patterns) :
            (MatchesSomewhere(i, b) /\ \A j \in 1..(i - 1) : ~MatchesSomewhere(j, b))
            => ledger = {"record_" \o re_search(patterns[i], b)}
       /\ (b \in {BodyRecord42Hash99, BodyHash99Record42}
            => ledger = {"record_42"})

\* C11 witness: the body "#99 x Record ID: 42", where the match of the last
\* pattern lies before the match of the first, got the key record_42.
C11_Witness ==
  /\ pc = "extracted"
  /\ message_data[1].body = BodyHash99Record42
  /\ re_search(patterns[4], BodyHash99Record42) = "99"
  /\ ledger = {"record_42"}

\* The key the mark call at hand writes.
KeyAtHand ==
  IF pc = "mark_raw" THEN message_id ELSE create_content_hash(message_data[1])

\* C12 (Ledger add is idempotent): an add of a key that is in the ledger
\* already, when its storage access works, reports no error and leaves the
\* ledger as it was; an add of a new key adds exactly that key; so a second
\* add of the same key changes nothing.
C12_AddIdempotent ==
  [][(MarkRawStep \/ MarkContentStep) =>
       /\ (KeyAtHand \in ledger /\ lastWrite' # "raised")
          => (lastWrite' = "kept" /\ ledger' = ledger)
       /\ (KeyAtHand \notin ledger /\ lastWrite' # "raised")
          => (lastWrite' = "added" /\ ledger' = ledger \cup {KeyAtHand})]_vars

\* C12 witness: a message whose raw id was in the ledger was delivered again
\* (its raw-id check raised), and the add of its raw id kept the ledger.
C12_Witness ==
  /\ pc = "mark_content"
  /\ lastWrite = "kept"
  /\ "raw" \in readRaised
  /\ message_id \in ledger
  /\ accepted[message_id] = 2

\* C13 (Fail-open reads): a contains check whose storage access raised
\* answers "not present": after the raw-id check the candidate goes on to
\* its fetch, after the content-key check to its delivery; the entry is not
\* skipped, the cycle stays at the same entry of the same list, and the
\* ledger is not touched.
C13_FailOpenReads ==
  /\ [][(pc = "check_raw" /\ lastRead' = "raised") => pc' = "fetch"]_vars
  /\ [][(pc = "check_content" /\ lastRead' = "raised") => pc' = "notify"]_vars
  /\ [][(pc \in {"check_raw", "check_content"} /\ lastRead' = "raised")
        => UNCHANGED <<messages, idx, outcomes, ledger>>]_vars

\* C13 witness: the content-key check of a candidate raised while its key
\* was in the ledger, and the candidate is at its delivery.
C13_Witness ==
  /\ pc = "notify"
  /\ lastRead = "raised"
  /\ create_content_hash(message_data[1]) \in ledger
  /\ "raw" \notin readRaised

\* C14 (Swallowed writes): when an add raises after a successful delivery,
\* the ledger is left as it was (without the key, when the key was new), the
\* loop goes on to the next call of the same entry or to the next entry of
\* the same list, and after the last entry to its sleep.
C14_SwallowedWrites ==
  /\ [][(MarkRawStep /\ lastWrite' = "raised")
        => (/\ ledger' = ledger
            /\ pc' = "mark_content"
            /\ UNCHANGED <<messages, idx, message_data>>)]_vars
  /\ [][(MarkContentStep /\ lastWrite' = "raised")
        => (/\ ledger' = ledger
            /\ messages' = messages
            /\ idx' = idx + 1
            /\ pc' = IF idx < Len(messages) THEN "check_raw" ELSE "sleep")]_vars

\* C14 witness: the first candidate was delivered, the add of its raw id
\* went through, the add of its content key raised and left no key, and the
\* loop is at the second candidate.
C14_Witness ==
  /\ pc = "check_raw"
  /\ idx = 2
  /\ outcomes = <<"post_ok">>
  /\ lastWrite = "raised"
  /\ messages[1] \in ledger
  /\ create_content_hash(mailbox[messages[1]]) \notin ledger

\* The step of a fetch that failed: the loop leaves "fetch" without a
\* message.
FetchFailedStep == pc = "fetch" /\ pc' \notin {"fetch", "check_content"}

\* C15 (Fetch failure is local): a failed fetch ends the evaluation of its
\* candidate with no POST and no ledger change, the loop goes on to the next
\* entry of the same list, and a cycle reaches its sleep only when every
\* entry of its list was evaluated.
C15_FetchFailureLocal ==
  /\ [][FetchFailedStep
        => (/\ ledger' = ledger
            /\ posts' = posts
            /\ messages' = messages
            /\ outcomes' = Append(outcomes, "fetch_fail")
            /\ idx' = idx + 1
            /\ pc' = IF idx < Len(messages) THEN "check_raw" ELSE "sleep")]_vars
  /\ [](pc = "sleep" => Len(outcomes) = Len(messages))

\* C15 witness: the fetch of the first candidate failed, it left no key and
\* got no POST, and the second candidate was delivered in the same cycle.
C15_Witness ==
  /\ pc = "sleep"
  /\ messages = <<"A", "B">>
  /\ outcomes = <<"fetch_fail", "post_ok">>
  /\ "A" \notin ledger
  /\ "B" \in ledger
  /\ posts = 1

\* The step of a cycle whose search raised.
SearchRaisedStep == Querying /\ dirty'

\* C16 (Loop survives cycle errors): a cycle whose search raises ends there,
\* with no fetch, no POST and no ledger change, and the loop sleeps; the
\* loop is never over, and from every sleep the next cycle can start.
C16_LoopSurvives ==
  /\ [][SearchRaisedStep
        => (/\ pc' = "sleep"
            /\ ledger' = ledger
            /\ messages' = <<>>
            /\ posts' = 0 /\ fetches' = 0)]_vars
  /\ [](pc # "stopped")
  /\ [](pc = "sleep" => ENABLED Querying)

\* C16 witness: after a cycle that committed keys, the search of the last
\* cycle raised; the keys are still there and the loop sleeps.
C16_Witness ==
  /\ pc = "sleep"
  /\ dirty
  /\ messages = <<>>
  /\ ledger # {}
  /\ posts = 0

\* The step of one call of post_to_slack.
NotifyStep == pc = "notify" /\ pc' # "notify"

\* C17 (Notifier result): one call of the notifier sends exactly one POST;
\* it returns true (the loop goes on to the commit) exactly when the sink
\* answered with status 200, and false (the loop takes the next entry) for
\* every other status and for an exception; the entry is not posted again.
C17_NotifierResult ==
  [][NotifyStep
     => (/\ posts' = posts + 1
         /\ (pc' = "mark_raw") <=> (message_id \notin failedIds')
         /\ pc' \in {"mark_raw", "check_raw", "sleep"}
         /\ (pc' # "mark_raw" => idx' = idx + 1))]_vars

\* C17 witness: in one cycle the notifier returned false for the first
\* candidate and true for the second, with one POST each.
C17_Witness ==
  /\ pc = "mark_raw"
  /\ idx = 2
  /\ outcomes = <<"post_fail">>
  /\ posts = 2
  /\ messages[1] \in failedIds
  /\ messages[2] \notin failedIds
  /\ messages[1] # messages[2]

\* C18 (Serial cycles): the loop is at one entry of one list at a time and
\* evaluates the entries in order; it reaches its sleep only after the last
\* entry (or when the search failed or returned nothing); and a new result
\* list is taken only by the search that follows a sleep.
C18_SerialCycles ==
  /\ [](pc # "sleep"
        => (idx \in 1..Len(messages) /\ Len(outcomes) = idx - 1))
  /\ [][(pc # "sleep" /\ pc' = "sleep")
        => (idx = Len(messages) /\ Len(outcomes') = Len(messages))]_vars
  /\ [][(messages' # messages \/ idx' < idx \/ Len(outcomes') < Len(outcomes))
        => (pc = "sleep" /\ Querying)]_vars

\* C18 witness: a second cycle over two candidates has ended in its sleep
\* with both evaluated, the first skipped for the key an earlier cycle
\* committed.
C18_Witness ==
  /\ pc = "sleep"
  /\ Len(messages) = 2
  /\ outcomes = <<"skip_raw", "post_ok">>
  /\ ~storageFault /\ ~everReset
  /\ idx = 3

\* The loop stopped while it was at an entry of its list.
StoppedMidCycle == pc = "stopped" /\ idx \in 1..Len(messages)

\* The loop stopped after the sink accepted the delivery of the entry at
\* hand (a POST more than the entries that ended account for) and before
\* both of its keys were committed.
StoppedBeforeCommit ==
  /\ StoppedMidCycle
  /\ posts > Cardinality(EntriesOfAny({"post_ok", "post_fail"}))
  /\ message_data # <<>>
  /\ \/ message_id \notin ledger
     \/ create_content_hash(message_data[1]) \notin ledger

\* C19 as stated (Cooperative cancellation): an interrupt takes effect
\* between cycles only, never at an entry of a cycle, so the loop never stops
\* with a message delivered with HTTP 200 and its keys not, or only its raw
\* id, committed.
C19_Original == ~StoppedBeforeCommit

\* Message m matches the query and the capped result of the cycle at hand
\* left it out.
LeftOut(m) ==
  /\ Len(messages) = maxResults
  /\ m \in DOMAIN mailbox
  /\ m \notin Range(messages)

\* Message m is an entry of the cycle at hand and was evaluated.
Evaluated(m) == EntriesOf(m, Outcomes) # {}

\* C20 as stated (Result cap and catch-up): a cycle evaluates at most
\* maxResults candidates, and every matching message that a capped result
\* left out is evaluated in a later cycle.
C20_Original ==
  /\ [](Len(messages) <= maxResults)
  /\ \A m \in Range(Inbox) : LeftOut(m) ~> Evaluated(m)

\* ---- the body decoder (SpecDecode)

\* The root of the body tree of the message at hand, and the body
\* get_message_details returned for it.
Payload == mailbox["A"].payload
Body == message_data[1].body

\* A plain-text part, or an HTML part, that decodes to text which is not
\* empty, and that text.
PlainWithText(part) ==
  /\ part.mimeType = "text/plain"
  /\ decode_data(data_of(part)).ok
  /\ decode_data(data_of(part)).text # <<>>

HtmlWithText(part) ==
  /\ part.mimeType = "text/html"
  /\ decode_data(data_of(part)).ok
  /\ strip_tags(decode_data(data_of(part)).text) # <<>>

PlainTextOf(part) == decode_data(data_of(part)).text

\* A text part with data that does not decode.
FailsToDecode(part) ==
  /\ part.mimeType \in {"text/plain", "text/html"}
  /\ data_of(part) # <<>>
  /\ ~decode_data(data_of(part)).ok

\* C21 (as claimed): when the parts of a composite payload include a plain
\* part and an HTML part that both decode to text that is not empty, the
\* decoder returns the text of a plain part, whatever the order of the parts.
C21_Original ==
  (/\ pc = "decoded"
   /\ "parts" \in DOMAIN Payload
   /\ \E i \in 1..Len(Payload.parts) : PlainWithText(Payload.parts[i])
   /\ \E j \in 1..Len(Payload.parts) : HtmlWithText(Payload.parts[j]))
  => \E i \in 1..Len(Payload.parts) :
       /\ PlainWithText(Payload.parts[i])
       /\ Body = PlainTextOf(Payload.parts[i])

\* C22: a text part whose data does not decode counts as empty and the
\* search goes on: when every part before part j of a composite payload
\* fails to decode and part j is a text part with text, the body is the
\* text of part j; and the decoder returns a string for every payload.
C22_DecodeFailureLocal ==
  pc = "decoded" =>
    /\ message_data # <<>>
    /\ Body \in Seq(0..2047)
    /\ "parts" \in DOMAIN Payload =>
         \A j \in 2..Len(Payload.parts) :
           (\A i \in 1..(j - 1) : FailsToDecode(Payload.parts[i])) =>
             /\ PlainWithText(Payload.parts[j]) =>
                  Body = PlainTextOf(Payload.parts[j])
             /\ HtmlWithText(Payload.parts[j]) =>
                  Body = strip_tags(PlainTextOf(Payload.parts[j]))

C22_Witness ==
  /\ pc = "decoded"
  /\ "parts" \in DOMAIN Payload
  /\ Len(Payload.parts) = 2
  /\ FailsToDecode(Payload.parts[1])
  /\ PlainWithText(Payload.parts[2])
  /\ Body = PlainText

\* The text the search of the body tree finds, "" when no node yields one.
TreeText == extract_from_part(Payload)

\* C23 (as claimed): the body is the text found in the body tree when a
\* node yields one, and the snippet of the message when none does.
C23_Original ==
  pc = "decoded" =>
    Body = IF TreeText # <<>> THEN TreeText ELSE mailbox["A"].snippet

\* The part of a payload that is one text part, alone or in a composite.
OnlyPart(payload) ==
  IF "parts" \in DOMAIN payload THEN payload.parts[1] ELSE payload

IsPartOf(payload, mimeType, text) ==
  /\ "parts" \in DOMAIN payload => Len(payload.parts) = 1
  /\ OnlyPart(payload).mimeType = mimeType
  /\ data_of(OnlyPart(payload)) = Enc(text)

\* No '<', one or more characters other than '>', and '>' in a row.
NoTagLeft(text) ==
  ~\E i, j \in 1..Len(text) :
     /\ text[i] = 60
     /\ text[j] = 62
     /\ j > i + 1
     /\ \A k \in (i + 1)..(j - 1) : text[k] # 62

Contains(text, piece) ==
  \E k \in 0..Len(text) :
    /\ k + Len(piece) <= Len(text)
    /\ SubSeq(text, k + 1, k + Len(piece)) = piece

\* C24: a plain part whose data encodes a text decodes to that text; an HTML
\* part decodes to a text with no tag left, which is its text when that has
\* no tag; "<p>Hi <b>Bob</b></p>" decodes to a text that contains "Hi Bob".
C24_RoundTrip ==
  pc = "decoded" =>
    \A t \in Texts :
      /\ IsPartOf(Payload, "text/plain", t) => Body = t
      /\ IsPartOf(Payload, "text/html", t) =>
           /\ NoTagLeft(Body)
           /\ NoTagLeft(t) => Body = t
           /\ t = ExampleHtml => Contains(Body, HiBob)

C24_Witness ==
  /\ pc = "decoded"
  /\ IsPartOf(Payload, "text/html", ExampleHtml)
  /\ Body = HiBob

\* ---- the payload (SpecPayload)

\* The blocks of the last payload posted, the message it was built from, and
\* the body text between the code fences of its preview block (the block
\* before the last of five blocks).
SentBlocks == sent[1].payload.blocks
SentMessage == sent[1].message_data
SentPreview ==
  IF Len(SentBlocks) = 5
  THEN SubSeq(SentBlocks[4].text.text, 4, Len(SentBlocks[4].text.text) - 1)
  ELSE <<>>

\* C25: every payload posted has the keys text, channel, username and
\* blocks; the blocks are a header, a section with the two fields From and
\* Date, a section with the query, a preview section exactly when the body
\* is not empty, and last an actions block with one button whose url is the
\* link to the thread and whose action id is "open_gmail": 4 or 5 blocks.
C25_PayloadShape ==
  sent # <<>> =>
    /\ DOMAIN sent[1].payload = {"text", "channel", "username", "blocks"}
    /\ Len(SentBlocks) \in {4, 5}
    /\ SentBlocks[1].type = "header"
    /\ SentBlocks[2].type = "section"
    /\ Len(SentBlocks[2].fields) = 2
    /\ SentBlocks[2].fields[1].text = <<"*From:*", "NL", SentMessage.sender>>
    /\ SentBlocks[2].fields[2].text = <<"*Date:*", "NL", SentMessage.date>>
    /\ SentBlocks[3].type = "section"
    /\ SentBlocks[3].text.text[1] = "*Query:*"
    /\ SentBlocks[3].text.text[4] = config.gmail_query
    /\ (Len(SentBlocks) = 5) <=> (SentMessage.body # <<>>)
    /\ Len(SentBlocks) = 5 =>
         /\ SentBlocks[4].type = "section"
         /\ SentBlocks[4].text.text[1] = "*Preview:*"
    /\ LET last == SentBlocks[Len(SentBlocks)]
       IN  /\ last.type = "actions"
           /\ Len(last.elements) = 1
           /\ last.elements[1].type = "button"
           /\ last.elements[1].url =
                <<"https://mail.google.com/mail/u/0/#inbox/",
                  SentMessage.thread_id>>
           /\ last.elements[1].action_id = "open_gmail"

C25_Witness ==
  /\ sent # <<>>
  /\ SentMessage.body = <<>>
  /\ Len(SentBlocks) = 4
  /\ pc = "mark_raw"

\* C26 (as claimed): the body text in the preview block is capped: it is
\* shorter than the longest body of the model, of which a cap leaves out a
\* part.
C26_Original == sent # <<>> => Len(SentPreview) < MaxBody

\* ---- the start (SpecStartup)

\* The credentials are missing or invalid, or state.db cannot be opened.
BadStart == boot.credentials # "valid" \/ boot.database = "fails"

\* C27 (as claimed): with missing or invalid credentials, or a ledger store
\* that cannot be initialised, no health request is served, no poll cycle
\* starts and no delivery is attempted, whatever the mode.
C27_Original ==
  BadStart =>
    /\ healthResp = <<>>
    /\ pc \in {"import", "dead"}
    /\ messages = <<>>
    /\ idx = 0
    /\ posts = 0

\* A health request is handled: a response is there that was not before.
HealthStep == healthResp' # healthResp

\* C28: handling a health request, wherever the polling loop is, changes
\* neither the ledger nor the monitor's configuration nor anything of the
\* cycle at hand, and the response holds the query, the poll interval and
\* the timezone the monitor was configured with.
C28_HealthReadOnly ==
  [][HealthStep =>
       /\ UNCHANGED <<ledger, config, boot, mailbox, pc, messages, idx,
                      message_data>>
       /\ config = monitor
       /\ healthResp'[1].gmail_query = config.gmail_query
       /\ healthResp'[1].poll_interval = config.poll_interval
       /\ healthResp'[1].timezone = config.timezone]_vars

C28_Witness ==
  /\ healthResp # <<>>
  /\ pc = "mark_content"
  /\ message_id \in ledger
  /\ healthResp[1].gmail_query = monitor.gmail_query

\* ---- skips by content key (SpecSkip)

\* The entry at hand is skipped because its content key is in the ledger.
ContentSkipStep ==
  pc = "check_content" /\ outcomes' = Append(outcomes, "skip_content")

\* The entries of this cycle, evaluated so far, of ids that were skipped by
\* content key in an earlier cycle.
SkippedBefore ==
  {e \in 1..Len(outcomes) : messages[e] \in skippedEarlier}

\* C30 (as claimed): a skip by content key adds nothing to the ledger, and
\* an id skipped by content key is, in every later cycle that returns it,
\* fetched again and skipped by content key again.
C30_Original ==
  /\ [][ContentSkipStep => ledger' = ledger]_vars
  /\ [](\A e \in SkippedBefore : outcomes[e] = "skip_content")

\* C30 (amended): a skip by content key adds nothing to the ledger, not the
\* raw id either; and as long as the ledger is not reset and its reads and
\* writes succeed, an id skipped by content key is, in every later cycle
\* that returns it, not in the ledger, fetched again, and skipped by
\* content key again unless that fetch fails.
C30_ContentSkip ==
  /\ [][ContentSkipStep => ledger' = ledger]_vars
  /\ []((~everReset /\ ~storageFault) =>
          /\ \A m \in skippedEarlier : ~SelectId(ledger, m)
          /\ \A e \in SkippedBefore :
               outcomes[e] \in {"skip_content", "fetch_fail"})

C30_Witness ==
  /\ pc = "sleep"
  /\ ~everReset
  /\ ~storageFault
  /\ messages = <<"B">>
  /\ "B" \in skippedEarlier
  /\ outcomes = <<"skip_content">>
  /\ fetches = 1
  /\ posts = 0
  /\ ~SelectId(ledger, "B")

\* ---- eventual delivery (SpecLiveFair)

\* Message m was delivered with 200 and its two keys are in the ledger.
Committed(m) ==
  /\ accepted[m] > 0
  /\ SelectId(ledger, m)
  /\ SelectId(ledger, create_content_hash(mailbox[m]))

\* Another message with the content key of m was delivered with 200.
TwinDelivered(m) ==
  \E o \in Ids \ {m} :
    /\ accepted[o] > 0
    /\ create_content_hash(mailbox[o]) = create_content_hash(mailbox[m])

\* The entries of this cycle, evaluated so far, of ids that were delivered
\* and in the ledger when an earlier cycle or this one began.
SettledEntries == {e \in 1..Len(outcomes) : messages[e] \in settled}

\* C29 (as claimed): message "A", returned by every search, is delivered
\* with 200 and committed at some time unless it is a content duplicate of
\* a delivered message; and once it is, it is skipped by raw id in every
\* later cycle.
C29_Original ==
  /\ <>(Committed("A") \/ TwinDelivered("A"))
  /\ [](\A e \in SettledEntries : outcomes[e] = "skip_raw")

\* C29 (amended): the same, provided the ledger is not reset and its reads
\* and writes succeed.
C29_EventualDelivery ==
  /\ <>(Committed("A") \/ TwinDelivered("A") \/ everReset \/ storageFault)
  /\ []((~everReset /\ ~storageFault) =>
          \A e \in SettledEntries : outcomes[e] = "skip_raw")

C29_Witness ==
  /\ pc = "sleep"
  /\ ~everReset
  /\ ~storageFault
  /\ Committed("A")
  /\ "A" \in settled
  /\ messages = <<"A">>
  /\ outcomes = <<"skip_raw">>

\* ---- raw id and content key (SpecPaired)

\* C31: when the writes of the ledger succeed and it was not reset, then
\* whenever the loop is between two cycles the ledger holds the raw id of a
\* message exactly if the message was delivered with 200, and with the raw
\* id of a message it holds the content key of that message.
C31_Paired ==
  (pc = "sleep" /\ ~everReset) =>
    \A m \in Ids :
      /\ SelectId(ledger, m) <=> accepted[m] > 0
      /\ SelectId(ledger, m) =>
           SelectId(ledger, create_content_hash(mailbox[m]))

C31_Witness ==
  /\ pc = "sleep"
  /\ ~everReset
  /\ storageFault
  /\ accepted["A"] = 2
  /\ accepted["B"] = 0
  /\ SelectId(ledger, "A")
  /\ ~SelectId(ledger, "B")
  /\ SelectId(ledger, create_content_hash(mailbox["A"]))

\* ---- the content key (SpecKey)

SameContent(a, b) ==
  a.body = b.body /\ a.subject = b.subject /\ a.date = b.date

\* The key is the same for messages of the same body, subject and date.
KeyOfContentOnly ==
  \A m1, m2 \in Ids :
    SameContent(mailbox[m1], mailbox[m2]) =>
      create_content_hash(mailbox[m1]) = create_content_hash(mailbox[m2])

\* The key of the message in hand is the key of every fetch of its id.
KeyOfFetch ==
  pc \in {"check_content", "notify", "mark_raw", "mark_content"} =>
    create_content_hash(message_data[1]) =
      create_content_hash(mailbox[message_id])

\* A skip by content key found the key of the message in hand in the ledger.
KeyLookedUp ==
  (pc = "check_content" /\ pc' \notin {"check_content", "notify"}) =>
    SelectId(ledger, create_content_hash(message_data[1]))

\* The commit adds the key of the message that was checked and delivered.
KeyCommitted ==
  (pc = "mark_content" /\ pc' # pc) =>
    ledger' = ledger \cup {create_content_hash(message_data[1])}

\* The message in hand is the same from the content check to the commit.
KeyKept ==
  (pc \in {"check_content", "notify", "mark_raw"}
     /\ pc' \in {"notify", "mark_raw", "mark_content"}) =>
    message_data' = message_data

\* C32: the content key depends on the body, the subject and the formatted
\* date of the normalized message only, not on its raw id, sender or thread
\* id; the key looked up in the content check is the key committed after
\* the delivery, and every fetch of one message gives the same key.
C32_KeyDeterminism ==
  /\ [](KeyOfContentOnly /\ KeyOfFetch)
  /\ [][KeyLookedUp /\ KeyCommitted /\ KeyKept]_vars

C32_Witness ==
  /\ pc = "sleep"
  /\ mailbox["B"] = TwinOf(MsgPlain)
  /\ mailbox["A"] = MsgPlain
  /\ messages = <<"A", "B">>
  /\ outcomes = <<"post_ok", "skip_content">>
  /\ ledger = {"A", create_content_hash(mailbox["B"])}

\* ---- termination of a cycle (SpecTermFair)

\* A cycle is over, or a delivery call of it never returned.
CycleOver == pc = "sleep"
Stalled == pc = "hung"

\* The calls of the cycle at hand: at most one fetch for each entry of the
\* result list, at most one delivery for each fetch, at most maxResults
\* entries.
CycleCounts ==
  /\ Len(messages) <= maxResults
  /\ Len(outcomes) <= Len(messages)
  /\ fetches <= Len(messages)
  /\ posts <= fetches
  /\ fetches <= maxResults
  /\ posts <= maxResults
  /\ CycleOver => Len(outcomes) = Len(messages)

\* Within a cycle the entries are taken one after the other, each once.
EntryByEntry ==
  ~CycleOver =>
    \/ idx' = idx /\ outcomes' = outcomes
    \/ /\ idx' = idx + 1
       /\ Len(outcomes') = idx
       /\ SubSeq(outcomes', 1, Len(outcomes)) = outcomes

\* A delivery call that does not return keeps the loop where it is.
StallsForGood ==
  Stalled => UNCHANGED <<pc, idx, messages, outcomes, posts, fetches, ledger>>

\* C33: when every call returns or raises, a cycle that began ends, with
\* every entry of its result list evaluated once, at most maxResults
\* fetches and at most maxResults deliveries; a delivery call that never
\* returns stalls the loop for good.
C33_CycleTermination ==
  /\ ~CycleOver ~> (CycleOver \/ Stalled)
  /\ []CycleCounts
  /\ [][EntryByEntry /\ StallsForGood]_vars

C33_Witness ==
  /\ CycleOver
  /\ Len(messages) = maxResults
  /\ outcomes = [k \in 1..maxResults |-> "post_ok"]
  /\ fetches = maxResults
  /\ posts = maxResults
  /\ Cardinality(DOMAIN mailbox) = maxResults + 1

\* ---- the mode of the health report (SpecStartup)

\* C34 as stated (Health reports the operating mode): whatever MODE is set
\* to, the mode in a health response is the mode the process runs in.
C34_Original ==
  healthResp # <<>> => healthResp[1].mode = main_mode(boot)

\* ---- run modes (SpecStartup)

\* The process got past its start; no cycle of the polling loop has begun.
Up == pc \notin {"import", "dead"}

NoCycleYet ==
  /\ pc \in {"import", "sleep", "dead"}
  /\ messages = <<>>
  /\ outcomes = <<>>
  /\ idx = 0
  /\ fetches = 0
  /\ posts = 0

\* C35: in server mode no cycle runs and the ledger stays empty, and health
\* requests are served; in worker mode the loop polls and no health request
\* is served; in combined mode the loop polls and health requests are
\* served beside it; with any other mode the process neither polls nor
\* serves.
C35_RunModes ==
  /\ main_mode(boot) = "server" =>
       /\ NoCycleYet
       /\ ledger = {}
       /\ ~ENABLED Poller
       /\ Up => ENABLED health
  /\ main_mode(boot) = "worker" =>
       /\ healthResp = <<>>
       /\ ~ENABLED health
       /\ Up => ENABLED Poller
  /\ main_mode(boot) = "combined" =>
       /\ Up => ENABLED Poller
       /\ Up => ENABLED health
  /\ main_mode(boot) \notin {"server", "worker", "combined"} =>
       /\ ~Up
       /\ NoCycleYet
       /\ healthResp = <<>>
       /\ ~ENABLED Poller
       /\ ~ENABLED health

C35_Witness ==
  /\ boot.mode = "WORKER"
  /\ pc = "sleep"
  /\ outcomes = <<"post_ok">>
  /\ ledger # {}
  /\ healthResp = <<>>

\* ---- no webhook URL (SpecNoSink)

NoWebhook == config.slack_webhook_url = Unset

\* The process starts: the constructor does not look at the URL.
StartsAnyway == pc = "import" => pc' = "sleep"

\* A delivery attempt ends as a failed delivery, and the loop goes on.
DeliveryReturnsFalse ==
  (pc = "notify" /\ pc' # pc) =>
    /\ outcomes' = Append(outcomes, "post_fail")
    /\ pc' \in {"check_raw", "sleep"}
    /\ ledger' = ledger

\* Nothing is marked, so nothing is skipped: every entry of a cycle is
\* fetched, and delivery is attempted for it unless its fetch failed.
NothingMarked ==
  /\ ledger = {}
  /\ pc \notin {"dead", "stopped", "mark_raw", "mark_content"}
  /\ Range(outcomes) \subseteq {"fetch_fail", "post_fail"}
  /\ fetches = Len(outcomes) + (IF pc \in {"check_content", "notify"} THEN 1 ELSE 0)
  /\ pc = "sleep" => ENABLED Querying

\* C36: with no webhook URL the process starts and polls; every delivery
\* attempt returns False and the loop goes on; the ledger stays empty, and
\* every entry of every cycle is fetched and, unless the fetch fails,
\* handed to delivery again.
C36_NoWebhook ==
  /\ [](NoWebhook => NothingMarked)
  /\ [][NoWebhook => StartsAnyway /\ DeliveryReturnsFalse]_vars

C36_Witness ==
  /\ NoWebhook
  /\ pc = "sleep"
  /\ messages = <<"A", "B">>
  /\ retryNow = {"A", "B"}
  /\ outcomes = <<"post_fail", "post_fail">>
  /\ posts = 2
  /\ ledger = {}

\* ---- the simulator (SpecSim)

\* The monitor posted a payload and the simulator built one, both from the
\* same normalized message.
SameMessage ==
  /\ sent # <<>>
  /\ simulated # <<>>
  /\ sent[1].message_data = simulated[1].message_data

\* C37: for one normalized message and one query, the payload of the
\* simulator has the text of the payload the monitor posts and the same
\* blocks, one by one.
C37_SimulatorEquivalence ==
  SameMessage =>
    /\ simulated[1].payload.text = sent[1].payload.text
    /\ Len(simulated[1].payload.blocks) = Len(SentBlocks)
    /\ \A k \in 1..Len(SentBlocks) :
         simulated[1].payload.blocks[k] = SentBlocks[k]

C37_Witness ==
  /\ SameMessage
  /\ config = monitor_own_query
  /\ Len(SentBlocks) = 5
  /\ simulated[1].payload.blocks[3].text.text[4] = "from:billing"
  /\ simulated[1].payload.channel # sent[1].payload.channel

====
